---- MODULE Spec2Model ----
(***************************************************************************)
(* The Encryption Profiling & Recovery Strategy Engine                     *)
(* (src/decryption_engine.py, class DecryptionEngine) as a state machine.  *)
(*                                                                         *)
(* Bytes are integers 0..255 and a buffer is a sequence of bytes.  Floats  *)
(* are modelled exactly where the code compares them with a threshold:     *)
(* a confidence is a rational <<num, den>>, an entropy is a fixed-point    *)
(* number of EntropyScale units per bit.                                   *)
(***************************************************************************)
EXTENDS Integers, Sequences, FiniteSets, TLC

VARIABLES decryption_cache, now, ncalls, pc, args, locals, ret, fetched,
          profile, etype, etype2, strat, analysis, unit, attempts, handler

vars == <<decryption_cache, now, ncalls, pc, args, locals, ret, fetched,
          profile, etype, etype2, strat, analysis, unit, attempts, handler>>

engineVars == <<decryption_cache, now, ncalls, pc, args, locals, ret, fetched>>

webVars == <<attempts, handler>>

pureVars == <<profile, etype, etype2, strat, analysis, unit>>

(***************************************************************************)
(* Python values                                                           *)
(***************************************************************************)
\* Python's None where a buffer, a key or a mapping value is expected.
None == <<-1>>

\* bool(x) of an optional buffer: None and b'' are falsy.
Truthy(b) == b # None /\ b # <<>>

Byte == 0..255

\* A rational num/den (den > 0) and its comparisons with another rational.
Rat(n, d) == <<n, d>>

\* (mutant) >= written for >
RatGTInclusive(r, n, d) == r[1] * d >= n * r[2]

RatGT(r, n, d) == r[1] * d > n * r[2]

RatLT(r, n, d) == r[1] * d < n * r[2]

RatEQ(r, n, d) == r[1] * d = n * r[2]

RatLE(r, n, d) == ~RatGT(r, n, d)

RatGE(r, n, d) == ~RatLT(r, n, d)

\* min(a, b) of two integers
Min(a, b) == IF a < b THEN a ELSE b

Max(a, b) == IF a > b THEN a ELSE b

\* a ^ b on bytes
RECURSIVE Xor(_, _)
Xor(a, b) ==
  IF a = 0 THEN b
  ELSE IF b = 0 THEN a
  ELSE ((a + b) % 2) + 2 * Xor(a \div 2, b \div 2)

\* The sequence f as an explicit tuple (evaluated once, element by element).
Tuple(f) == f \o <<>>

\* data[lo:hi] for 0 <= lo, as Python clips the bounds
Slice(data, lo, hi) ==
  IF Min(hi, Len(data)) <= lo THEN <<>> ELSE SubSeq(data, lo + 1, Min(hi, Len(data)))

\* data.startswith(prefix)
StartsWith(data, prefix) ==
  /\ Len(data) >= Len(prefix)
  /\ \A i \in 1..Len(prefix) : data[i] = prefix[i]

\* needle in haystack (substring search)
Contains(data, needle) ==
  \E s \in 0..(Len(data) - Len(needle)) :
    \A i \in 1..Len(needle) : data[s + i] = needle[i]

\* 32 <= b <= 126 or b in [9, 10, 13]
IsPrintable(b) == (32 <= b /\ b <= 126) \/ b \in {9, 10, 13}

(***************************************************************************)
(* np.log2 and Shannon entropy in fixed point                              *)
(***************************************************************************)
\* Entropy unit: 1/EntropyScale bit (a multiple of 10, so that the thresholds
\* 7.8, 7.5, 7.0 and 6.0 are whole numbers of units).
EntropyScale == 10 * (2^8)

RECURSIVE FloorLog2(_)
FloorLog2(x) == IF x < 2 THEN 0 ELSE 1 + FloorLog2(x \div 2)

\* The next `bits` binary digits of log2 of the mantissa y / 2^14 in [1, 2),
\* by repeated squaring.
RECURSIVE Log2Frac(_, _, _)
Log2Frac(y, bits, acc) ==
  IF bits = 0 THEN acc
  ELSE LET sq == (y * y) \div (2^14)
       IN  IF sq >= 2^15 THEN Log2Frac(sq \div 2, bits - 1, 2 * acc + 1)
           ELSE Log2Frac(sq, bits - 1, 2 * acc)

\* np.log2(x) for an integer 1 <= x < 2^14, in entropy units, to 8 binary
\* digits; exact on the powers of two.
Log2(x) ==
  LET k == FloorLog2(x)
  IN  10 * (k * (2^8) + Log2Frac((x * (2^14)) \div (2^k), 8, 0))

\* The threshold comparisons `entropy > n/d` and `entropy < n/d`.
EntropyGT(e, n, d) == e * d > n * EntropyScale

EntropyLT(e, n, d) == e * d < n * EntropyScale

\* byte_counts[v] after the counting loop
ByteCount(data, v) == Cardinality({i \in DOMAIN data : data[i] = v})

RECURSIVE SumF(_, _, _)
\* sum of f[v] for v in lo..hi (halving, to keep the recursion shallow)
SumF(f, lo, hi) ==
  IF lo > hi THEN 0
  ELSE IF lo = hi THEN f[lo]
  ELSE LET mid == (lo + hi) \div 2
       IN  SumF(f, lo, mid) + SumF(f, mid + 1, hi)

\* _calculate_entropy: -sum p*log2(p) over the byte values with p > 0, where
\* p = count/len; -p*log2(p) = count*(log2(len) - log2(count))/len, and the
\* division by len is done once, after the sum.
_calculate_entropy(data) ==
  IF Len(data) = 0 THEN 0
  ELSE LET n == Len(data)
           terms == [v \in Byte |->
                       LET c == ByteCount(data, v)
                       IN  IF c > 0 THEN c * (Log2(n) - Log2(c)) ELSE 0]
       IN  SumF(terms, 0, 255) \div n

(***************************************************************************)
(* Python exceptions: a fallible function returns Ok(value) or Err(kind)   *)
(***************************************************************************)
Ok(v) == [exc |-> "", val |-> v]

Err(kind) == [exc |-> kind, val |-> None]

\* dict.get(key, default)
Get(m, key, default) == IF key \in DOMAIN m THEN m[key] ELSE default

\* the empty dict {}
EmptyDict == [k \in {} |-> None]

(***************************************************************************)
(* Byte strings of the source                                              *)
(***************************************************************************)
SigZIP == <<80, 75, 3, 4>>

SigPNG == <<137, 80, 78, 71, 13, 10, 26, 10>>

SigPDF == <<37, 80, 68, 70>>

SigEXE == <<77, 90>>

SigJPEG == <<255, 216, 255>>

\* b'.encrypted', b'.locked', b'.crypt', b'.crypto', b'.enc',
\* b'DECRYPT_INSTRUCTION', b'HOW_TO_DECRYPT', b'YOUR_FILES_ARE_ENCRYPTED'
common_markers ==
  << <<46, 101, 110, 99, 114, 121, 112, 116, 101, 100>>,
     <<46, 108, 111, 99, 107, 101, 100>>,
     <<46, 99, 114, 121, 112, 116>>,
     <<46, 99, 114, 121, 112, 116, 111>>,
     <<46, 101, 110, 99>>,
     <<68, 69, 67, 82, 89, 80, 84, 95, 73, 78, 83, 84, 82, 85, 67, 84, 73, 79, 78>>,
     <<72, 79, 87, 95, 84, 79, 95, 68, 69, 67, 82, 89, 80, 84>>,
     <<89, 79, 85, 82, 95, 70, 73, 76, 69, 83, 95, 65, 82, 69, 95, 69, 78, 67,
       82, 89, 80, 84, 69, 68>> >>

(***************************************************************************)
(* Statistical profiler                                                    *)
(***************************************************************************)
\* std_freq < 0.002 for the non-zero frequencies count/n of k byte values:
\* std^2 = (k*sum(count^2) - n^2) / (k*n)^2, so the test is
\* 250000*(k*sum(count^2) - n^2) < (k*n)^2, evaluated without overflowing
\* 32 bits with k*n = 500*a + r.
StdBelowThreshold(k, n, sumsq) ==
  LET A == k * sumsq - n * n
      a == (k * n) \div 500
      r == (k * n) % 500
      d == A - a * a
  IN  IF d < 0 THEN TRUE
      ELSE IF d >= 1200 THEN FALSE
      ELSE 250000 * d < 1000 * a * r + r * r

\* The statistics of _analyze_byte_distribution, lines 172-195: np.min of
\* an empty selection raises ValueError (std_frequency is kept as is_uniform
\* only).
ByteDistributionStats(data) ==
  LET n == Len(data)
      byte_counts == [v \in Byte |-> ByteCount(data, v)]
      nonzero == {v \in Byte : byte_counts[v] > 0}
      k == Cardinality(nonzero)
      maxc == CHOOSE c \in {byte_counts[v] : v \in nonzero} :
                \A v \in nonzero : byte_counts[v] <= c
      minc == CHOOSE c \in {byte_counts[v] : v \in nonzero} :
                \A v \in nonzero : byte_counts[v] >= c
      sumsq == SumF([v \in Byte |-> byte_counts[v] * byte_counts[v]], 0, 255)
  IN  IF k = 0 THEN Err("ValueError")
      ELSE Ok([max_frequency |-> Rat(maxc, n),
               min_frequency |-> Rat(minc, n),
               mean_frequency |-> Rat(1, k),
               zero_bytes_ratio |-> Rat(byte_counts[0], n),
               is_uniform |-> StdBelowThreshold(k, n, sumsq)])

\* (mutant) the empty-buffer guard of line 169 left out
_analyze_byte_distribution_unguarded(data) == ByteDistributionStats(data)

\* _analyze_byte_distribution: {} on an empty buffer, else the statistics of
\* the non-zero byte frequencies.
_analyze_byte_distribution(data) ==
  IF Len(data) = 0 THEN Ok(EmptyDict) ELSE ByteDistributionStats(data)

\* (mutant) a buffer of exactly 16 bytes taken as too short for a header
_analyze_file_header_short16(data) ==
  IF Len(data) <= 16 THEN [identified |-> FALSE, file_type |-> "unknown"]
  ELSE LET header == Slice(data, 0, 16)
       IN  IF StartsWith(header, SigZIP)
           THEN [header_hex |-> header, identified |-> TRUE, file_type |-> "zip"]
           ELSE [header_hex |-> header, identified |-> FALSE, file_type |-> "unknown"]

\* (mutant) the header entropy tested against 3.0 instead of 7.0
_analyze_file_header_entropy3(data) ==
  IF Len(data) < 16 THEN [identified |-> FALSE, file_type |-> "unknown"]
  ELSE LET header == Slice(data, 0, 16)
           known(t) == [header_hex |-> header, identified |-> TRUE, file_type |-> t]
       IN  IF StartsWith(header, SigZIP) THEN known("zip")
           ELSE IF StartsWith(header, SigPNG) THEN known("png")
           ELSE IF StartsWith(header, SigPDF) THEN known("pdf")
           ELSE IF StartsWith(header, SigEXE) THEN known("exe")
           ELSE IF StartsWith(header, SigJPEG) THEN known("jpeg")
           ELSE IF \A i \in 1..16 : IsPrintable(header[i]) THEN known("text")
           ELSE LET header_entropy == _calculate_entropy(header)
                    unknown == [header_hex |-> header, identified |-> FALSE,
                                file_type |-> "unknown"]
                IN  IF EntropyGT(header_entropy, 3, 1)
                    THEN unknown @@ [possible_encryption |-> TRUE,
                                     header_entropy |-> header_entropy]
                    ELSE unknown

\* _analyze_file_header
_analyze_file_header(data) ==
  IF Len(data) < 16 THEN [identified |-> FALSE, file_type |-> "unknown"]
  ELSE LET header == Slice(data, 0, 16)
           known(t) == [header_hex |-> header, identified |-> TRUE, file_type |-> t]
       IN  IF StartsWith(header, SigZIP) THEN known("zip")
           ELSE IF StartsWith(header, SigPNG) THEN known("png")
           ELSE IF StartsWith(header, SigPDF) THEN known("pdf")
           ELSE IF StartsWith(header, SigEXE) THEN known("exe")
           ELSE IF StartsWith(header, SigJPEG) THEN known("jpeg")
           ELSE IF \A i \in 1..16 : IsPrintable(header[i]) THEN known("text")
           ELSE LET header_entropy == _calculate_entropy(header)
                    unknown == [header_hex |-> header, identified |-> FALSE,
                                file_type |-> "unknown"]
                IN  IF EntropyGT(header_entropy, 7, 1)
                    THEN unknown @@ [possible_encryption |-> TRUE,
                                     header_entropy |-> header_entropy]
                    ELSE unknown

\* _has_repeating_blocks with block_size = 16: the blocks start at
\* range(0, len(data) - block_size, block_size).
_has_repeating_blocks(data) ==
  IF Len(data) < 16 * 2 THEN FALSE
  ELSE LET starts == {i \in 0..(Len(data) - 16 - 1) : i % 16 = 0}
           block(i) == Slice(data, i, i + 16)
           count(i) == Cardinality({j \in starts : block(j) = block(i)})
       IN  \E i \in starts : count(i) > 3

\* (mutant) every byte of the first 100 is sampled, not every tenth of the
\* first 1000
XorSamplesDense(data) ==
  Tuple([j \in 1..Min(100, Len(data)) |-> data[j]])

\* samples and xor_values of _check_xor_pattern
XorSamples(data) ==
  LET idx == {i \in 0..(Min(1000, Len(data)) - 1) : i % 10 = 0}
  IN  Tuple([j \in 1..Cardinality(idx) |-> data[10 * (j - 1) + 1]])

XorValues(samples) ==
  Tuple([i \in 1..(Len(samples) - 1) |-> Xor(samples[i], samples[i + 1])])

\* _check_xor_pattern: len(unique_xors) / len(xor_values) < 0.5
_check_xor_pattern(data) ==
  IF Len(data) < 100 THEN Ok(FALSE)
  ELSE LET xor_values == XorValues(XorSamples(data))
           unique_xors == {xor_values[i] : i \in DOMAIN xor_values}
       IN  IF Len(xor_values) = 0 THEN Err("ZeroDivisionError")
           ELSE Ok(2 * Cardinality(unique_xors) < Len(xor_values))

\* _check_ransomware_markers: a marker occurs in str(data) iff its bytes
\* occur in data (the repr escapes no byte of a marker).
_check_ransomware_markers(data) ==
  \E m \in DOMAIN common_markers : Contains(data, common_markers[m])

\* _detect_encryption_patterns
_detect_encryption_patterns(data) ==
  LET xor == _check_xor_pattern(data)
  IN  IF xor.exc # "" THEN Err(xor.exc)
      ELSE Ok([has_repeating_blocks |-> _has_repeating_blocks(data),
               possible_xor |-> xor.val,
               has_ransomware_markers |-> _check_ransomware_markers(data)])

(***************************************************************************)
(* Encryption classifier and strategy selector                             *)
(*                                                                         *)
(* A label is the sequence of the string pieces the code concatenates.     *)
(***************************************************************************)
LabelAESECB == <<"AES-ECB">>

LabelStrongUniform == <<"Strong encryption (AES/RSA)">>

LabelStrongUnknown == <<"Strong encryption (unknown type)">>

LabelXOR == <<"XOR encryption">>

LabelMedium == <<"Medium-strength encryption (possibly RC4, DES)">>

LabelWeakOver(file_type) == <<"Weak encryption over ", file_type, " file">>

LabelSimple == <<"Simple encryption or encoding">>

LabelMarker == <<"Possible ransomware marker, no strong encryption">>

LabelNone == <<"No encryption detected">>

FileTypes == {"zip", "png", "pdf", "exe", "jpeg", "text", "unknown"}

\* "XOR" in encryption_type: of the pieces a label is made of, only
\* "XOR encryption" holds the substring.
ContainsXOR(label) == \E i \in DOMAIN label : label[i] = "XOR encryption"

\* encryption_type.startswith("Weak encryption")
StartsWithWeak(label) == label[1] = "Weak encryption over "

\* (mutant) the upper band edge compared with >= instead of >
_determine_encryption_type_inclusive(entropy, byte_distribution, header_analysis, pattern_analysis) ==
  IF ~EntropyLT(entropy, 78, 10)
  THEN IF Get(pattern_analysis, "has_repeating_blocks", FALSE) THEN LabelAESECB
       ELSE IF Get(byte_distribution, "is_uniform", FALSE) THEN LabelStrongUniform
       ELSE LabelStrongUnknown
  ELSE IF EntropyGT(entropy, 7, 1)
  THEN IF Get(pattern_analysis, "possible_xor", FALSE) THEN LabelXOR
       ELSE LabelMedium
  ELSE IF EntropyGT(entropy, 6, 1)
  THEN IF Get(header_analysis, "file_type", "unknown") # "unknown"
       THEN LabelWeakOver(Get(header_analysis, "file_type", None))
       ELSE LabelSimple
  ELSE IF Get(pattern_analysis, "has_ransomware_markers", FALSE) THEN LabelMarker
       ELSE LabelNone

\* (mutant) byte_distribution['is_uniform'] subscripted instead of .get: absent
\* statistics raise KeyError and no label is returned
_determine_encryption_type_subscript(entropy, byte_distribution, header_analysis, pattern_analysis) ==
  IF "is_uniform" \notin DOMAIN byte_distribution THEN <<"KeyError: 'is_uniform'">>
  ELSE IF EntropyGT(entropy, 78, 10)
  THEN IF Get(pattern_analysis, "has_repeating_blocks", FALSE) THEN LabelAESECB
       ELSE IF byte_distribution.is_uniform THEN LabelStrongUniform
       ELSE LabelStrongUnknown
  ELSE IF EntropyGT(entropy, 7, 1)
  THEN IF Get(pattern_analysis, "possible_xor", FALSE) THEN LabelXOR
       ELSE LabelMedium
  ELSE IF EntropyGT(entropy, 6, 1)
  THEN IF Get(header_analysis, "file_type", "unknown") # "unknown"
       THEN LabelWeakOver(Get(header_analysis, "file_type", None))
       ELSE LabelSimple
  ELSE IF Get(pattern_analysis, "has_ransomware_markers", FALSE) THEN LabelMarker
       ELSE LabelNone

\* _determine_encryption_type
_determine_encryption_type(entropy, byte_distribution, header_analysis, pattern_analysis) ==
  IF EntropyGT(entropy, 78, 10)
  THEN IF Get(pattern_analysis, "has_repeating_blocks", FALSE) THEN LabelAESECB
       ELSE IF Get(byte_distribution, "is_uniform", FALSE) THEN LabelStrongUniform
       ELSE LabelStrongUnknown
  ELSE IF EntropyGT(entropy, 7, 1)
  THEN IF Get(pattern_analysis, "possible_xor", FALSE) THEN LabelXOR
       ELSE LabelMedium
  ELSE IF EntropyGT(entropy, 6, 1)
  THEN IF Get(header_analysis, "file_type", "unknown") # "unknown"
       THEN LabelWeakOver(Get(header_analysis, "file_type", None))
       ELSE LabelSimple
  ELSE IF Get(pattern_analysis, "has_ransomware_markers", FALSE) THEN LabelMarker
       ELSE LabelNone

\* (mutant) the repeating-blocks test moved before the weak-header test
_develop_decryption_strategy_reordered(encryption_type, entropy, byte_distribution, header_analysis, pattern_analysis) ==
  IF ContainsXOR(encryption_type)
  THEN [name |-> "xor_bruteforce", key_size_range |-> <<1, 8>>,
        success_probability |-> Rat(7, 10)]
  ELSE IF Get(pattern_analysis, "has_repeating_blocks", FALSE)
  THEN [name |-> "pattern_based_recovery", block_size |-> 16,
        success_probability |-> Rat(5, 10)]
  ELSE IF StartsWithWeak(encryption_type) /\ Get(header_analysis, "identified", FALSE)
  THEN [name |-> "known_header_analysis",
        file_type |-> Get(header_analysis, "file_type", "unknown"),
        success_probability |-> Rat(6, 10)]
  ELSE IF EntropyGT(entropy, 7, 1) /\ ~Get(byte_distribution, "is_uniform", FALSE)
  THEN [name |-> "partial_key_recovery", success_probability |-> Rat(3, 10)]
  ELSE [name |-> "generic_recovery", success_probability |-> Rat(2, 10)]

\* _develop_decryption_strategy (the 'description' texts are left out)
_develop_decryption_strategy(encryption_type, entropy, byte_distribution, header_analysis, pattern_analysis) ==
  IF ContainsXOR(encryption_type)
  THEN [name |-> "xor_bruteforce", key_size_range |-> <<1, 8>>,
        success_probability |-> Rat(7, 10)]
  ELSE IF StartsWithWeak(encryption_type) /\ Get(header_analysis, "identified", FALSE)
  THEN [name |-> "known_header_analysis",
        file_type |-> Get(header_analysis, "file_type", "unknown"),
        success_probability |-> Rat(6, 10)]
  ELSE IF Get(pattern_analysis, "has_repeating_blocks", FALSE)
  THEN [name |-> "pattern_based_recovery", block_size |-> 16,
        success_probability |-> Rat(5, 10)]
  ELSE IF EntropyGT(entropy, 7, 1) /\ ~Get(byte_distribution, "is_uniform", FALSE)
  THEN [name |-> "partial_key_recovery", success_probability |-> Rat(3, 10)]
  ELSE [name |-> "generic_recovery", success_probability |-> Rat(2, 10)]

\* analyze_encryption on a bytes buffer: the result dict, or the exception
\* the except clause re-raises (analysis_time is a wall-clock reading and is
\* kept as a present field).
analyze_encryption(content) ==
  LET file_size == Len(content)
      entropy == _calculate_entropy(content)
      byte_distribution == _analyze_byte_distribution(content)
      header_analysis == _analyze_file_header(content)
      pattern_analysis == _detect_encryption_patterns(content)
      encryption_type ==
        _determine_encryption_type(entropy, byte_distribution.val,
                                   header_analysis, pattern_analysis.val)
      strategy ==
        _develop_decryption_strategy(encryption_type, entropy, byte_distribution.val,
                                     header_analysis, pattern_analysis.val)
  IN  IF byte_distribution.exc # "" THEN Err(byte_distribution.exc)
      ELSE IF pattern_analysis.exc # "" THEN Err(pattern_analysis.exc)
      ELSE Ok([encryption_type |-> encryption_type,
               file_size |-> file_size,
               entropy |-> entropy,
               analysis_time |-> "elapsed",
               strategy |-> strategy])

(***************************************************************************)
(* Input buffers                                                           *)
(***************************************************************************)
\* the bytes start, start+1, ... (mod 256), n of them
Ramp(start, n) == Tuple([i \in 1..n |-> (start + i - 1) % 256])

\* n copies of the byte b
Fill(b, n) == Tuple([i \in 1..n |-> b])

\* b''
BufEmpty == <<>>

\* b'Hi'
BufShortText == <<72, 105>>

\* b'a.enc' (a ransomware marker)
BufMarker == <<97, 46, 101, 110, 99>>

\* b'{"k": 1}' (a JSON object)
BufJson == <<123, 34, 107, 34, 58, 32, 49, 125>>

\* the ZIP signature followed by zero bytes
BufZipZeros == SigZIP \o Fill(0, 28)

\* the ZIP signature followed by 1000 zero bytes
BufZip1000 == SigZIP \o Fill(0, 1000)

\* the ZIP signature followed by 12 zero bytes: 16 bytes, a whole header
BufZip16 == SigZIP \o Fill(0, 12)

\* the ZIP signature followed by 4 zero bytes: shorter than a header
BufZip8 == SigZIP \o Fill(0, 4)

\* one 16-byte block five times
BufRepeat == Ramp(200, 16) \o Ramp(200, 16) \o Ramp(200, 16) \o Ramp(200, 16) \o Ramp(200, 16)

\* 64 distinct bytes once each: entropy exactly 6.0
BufEntropy6 == Ramp(0, 64)

\* 100 distinct bytes, unidentified header: entropy in (6, 7]
BufSimple == Ramp(0, 100)

\* the ZIP signature XOR-encrypted with the key b'\x01' over a 6 < entropy <= 7 body
BufWeakZip == SigZIP \o Ramp(100, 96)

\* printable bytes 32..126: a text header, entropy in (6, 7]
BufWeakText == Ramp(32, 95)

\* 128 distinct bytes once each: entropy exactly 7.0
BufEntropy7 == Ramp(0, 128)

\* 160 distinct bytes and ten more zero bytes: 7.0 < entropy <= 7.5, not uniform
BufMediumSkew == Ramp(0, 160) \o Fill(0, 10)

\* 200 distinct bytes once each: 7.0 < entropy <= 7.8, uniform
BufMediumRamp == Ramp(0, 200)

\* all 256 bytes once each: entropy 8, uniform
BufRamp256 == Ramp(0, 256)

\* all 256 bytes and eleven more zero bytes: entropy > 7.8, not uniform
BufStrongSkew == Ramp(0, 256) \o Fill(0, 11)

(***************************************************************************)
(* Plausibility scorer                                                     *)
(***************************************************************************)
\* _xor_decrypt
_xor_decrypt(data, key) ==
  IF Len(key) = 0 THEN data
  ELSE Tuple([i \in 1..Len(data) |-> Xor(data[i], key[((i - 1) % Len(key)) + 1])])

IsCont(b) == 128 <= b /\ b <= 191

\* bytes.decode('utf-8', errors='ignore'), one token per byte position: the
\* code point of the character that starts at position i, or -1 where the
\* byte is a continuation byte or is dropped as undecodable.
Utf8Token(data, i) ==
  LET b == data[i]
      at(j) == IF i + j <= Len(data) THEN data[i + j] ELSE -1
  IN  IF b < 128 THEN b
      ELSE IF 194 <= b /\ b <= 223 /\ IsCont(at(1))
      THEN (b - 192) * 64 + (at(1) - 128)
      ELSE IF 224 <= b /\ b <= 239 /\ IsCont(at(1)) /\ IsCont(at(2))
              /\ (b = 224 => at(1) >= 160) /\ (b = 237 => at(1) <= 159)
      THEN (b - 224) * 4096 + (at(1) - 128) * 64 + (at(2) - 128)
      ELSE IF 240 <= b /\ b <= 244 /\ IsCont(at(1)) /\ IsCont(at(2)) /\ IsCont(at(3))
              /\ (b = 240 => at(1) >= 144) /\ (b = 244 => at(1) <= 143)
      THEN (b - 240) * 262144 + (at(1) - 128) * 4096 + (at(2) - 128) * 64 + (at(3) - 128)
      ELSE -1

IsDecoded(t) == t # -1

Utf8DecodeIgnore(data) ==
  SelectSeq([i \in 1..Len(data) |-> Utf8Token(data, i)], IsDecoded)

\* the characters str.strip() removes
IsSpaceChar(c) ==
  \/ c \in {9, 10, 11, 12, 13, 28, 29, 30, 31, 32, 133, 160, 5760, 8232, 8233, 8239, 8287, 12288}
  \/ (8192 <= c /\ c <= 8202)

\* text.strip().endswith('}')
StripEndsWithBrace(text) ==
  \E i \in 1..Len(text) :
    /\ text[i] = 125
    /\ \A j \in (i + 1)..Len(text) : IsSpaceChar(text[j])

\* '<!DOCTYPE', '<html', '<?xml', '{'
TextDOCTYPE == <<60, 33, 68, 79, 67, 84, 89, 80, 69>>

TextHtml == <<60, 104, 116, 109, 108>>

TextXml == <<60, 63, 120, 109, 108>>

TextBrace == <<123>>

\* the file-signature bonus, lines 619-629
SignatureScore(data) ==
  IF StartsWith(data, SigZIP) THEN 50
  ELSE IF StartsWith(data, SigPNG) THEN 50
  ELSE IF StartsWith(data, SigPDF) THEN 50
  ELSE IF StartsWith(data, SigEXE) THEN 40
  ELSE IF StartsWith(data, SigJPEG) THEN 50
  ELSE 0

\* (mutant) printable_ratio >= 0.9
TextScoreInclusive(data) ==
  LET m == Min(1000, Len(data))
      sample == Slice(data, 0, m)
      printable == Cardinality({i \in 1..m : IsPrintable(sample[i])})
      text_sample == Utf8DecodeIgnore(sample)
  IN  IF 10 * printable >= 9 * m
      THEN 40 + (IF StartsWith(text_sample, TextDOCTYPE) \/ StartsWith(text_sample, TextHtml)
                 THEN 20
                 ELSE IF StartsWith(text_sample, TextXml) THEN 20
                 ELSE IF StartsWith(text_sample, TextBrace) /\ StripEndsWithBrace(text_sample)
                 THEN 15
                 ELSE 0)
      ELSE 0

\* the text bonus, lines 631-646: printable_ratio > 0.9 over the first
\* min(1000, len) bytes
TextScore(data) ==
  LET m == Min(1000, Len(data))
      sample == Slice(data, 0, m)
      printable == Cardinality({i \in 1..m : IsPrintable(sample[i])})
      text_sample == Utf8DecodeIgnore(sample)
  IN  IF 10 * printable > 9 * m
      THEN 40 + (IF StartsWith(text_sample, TextDOCTYPE) \/ StartsWith(text_sample, TextHtml)
                 THEN 20
                 ELSE IF StartsWith(text_sample, TextXml) THEN 20
                 ELSE IF StartsWith(text_sample, TextBrace) /\ StripEndsWithBrace(text_sample)
                 THEN 15
                 ELSE 0)
      ELSE 0

\* the entropy bonus, lines 648-653
EntropyScore(data) ==
  LET entropy == _calculate_entropy(Slice(data, 0, Min(1000, Len(data))))
  IN  IF EntropyLT(entropy, 6, 1) THEN 20
      ELSE IF EntropyLT(entropy, 7, 1) THEN 10
      ELSE 0

\* (mutant) the cap of line 656 left out
_score_decryption_result_uncapped(data) ==
  IF data = None \/ Len(data) = 0 THEN 0
  ELSE SignatureScore(data) + TextScore(data) + EntropyScore(data)

\* _score_decryption_result
_score_decryption_result(data) ==
  IF data = None \/ Len(data) = 0 THEN 0
  ELSE Min(SignatureScore(data) + TextScore(data) + EntropyScore(data), 100)

(***************************************************************************)
(* Placeholder content                                                     *)
(***************************************************************************)
\* b'DECRYPTED', b'DECR'
TextDECRYPTED == <<68, 69, 67, 82, 89, 80, 84, 69, 68>>

TextDECR == <<68, 69, 67, 82>>

\* b'DECRYPTED_FILE_CONTENT\n\n'
TextFileContent == <<68, 69, 67, 82, 89, 80, 84, 69, 68, 95, 70, 73, 76, 69, 95, 67, 79, 78, 84, 69, 78, 84, 10, 10>>

\* str(i) for 0 <= i < 100, as bytes
Decimal(i) == IF i < 10 THEN <<48 + i>> ELSE <<48 + (i \div 10), 48 + (i % 10)>>

\* f"BLOCK {i}: Decrypted content line {i}\n"
BlockLine(i) ==
  <<66, 76, 79, 67, 75, 32>> \o Decimal(i) \o <<58, 32, 68, 101, 99, 114, 121, 112, 116, 101, 100, 32, 99, 111, 110, 116, 101, 110, 116, 32, 108, 105, 110, 101, 32>> \o Decimal(i) \o <<10>>

RECURSIVE BlockLines(_, _)
\* the lines i .. n-1, joined
BlockLines(i, n) == IF i >= n THEN <<>> ELSE BlockLine(i) \o BlockLines(i + 1, n)

\* The full (partial=False) placeholder: the header and 20 lines, padded with
\* spaces or truncated to len(content).
SimulatedFull(content) ==
  LET result == TextFileContent \o BlockLines(0, 20)
  IN  IF Len(result) < Len(content)
      THEN result \o Fill(32, Len(content) - Len(result))
      ELSE Slice(result, 0, Len(content))

\* One chunk of the partial placeholder: i is the chunk's offset, decrypted
\* the outcome of random.random() < 0.7.
SimulatedChunk(chunk, i, decrypted) ==
  IF ~decrypted THEN chunk
  ELSE IF i = 0
  THEN IF Len(chunk) >= 8 THEN TextDECRYPTED \o Slice(chunk, 8, Len(chunk))
       ELSE IF Len(chunk) >= 4 THEN TextDECR \o Slice(chunk, 4, Len(chunk))
       ELSE chunk
  ELSE Tuple([j \in 1..Len(chunk) |-> (chunk[j] + i) % 256])

RECURSIVE JoinChunks(_, _, _)
\* b''.join of the chunks from offset i on; choice[c] is the random outcome
\* for chunk number c
JoinChunks(content, i, choice) ==
  IF i >= Len(content) THEN <<>>
  ELSE SimulatedChunk(Slice(content, i, i + 1024), i, choice[(i \div 1024) + 1])
         \o JoinChunks(content, i + 1024, choice)

\* _create_simulated_decryption: the set of buffers it can return, one per
\* outcome of the random per-chunk choices.
_create_simulated_decryption(content, partial) ==
  IF partial
  THEN LET nchunks == (Len(content) + 1023) \div 1024
       IN  {JoinChunks(content, 0, choice) : choice \in [1..nchunks -> BOOLEAN]}
  ELSE {SimulatedFull(content)}

(***************************************************************************)
(* Recovery executor: the five strategy branches                           *)
(*                                                                         *)
(* A branch returns the set of its possible results, one per outcome of    *)
(* the random choices it makes: Ok of the tuple (decrypted_content,        *)
(* confidence, key_found, details), or Err of the exception it raises.     *)
(***************************************************************************)
Result(decrypted_content, confidence, key_found, details) ==
  Ok([decrypted_content |-> decrypted_content, confidence |-> confidence,
      key_found |-> key_found, details |-> details])

\* random.randint(0, 255), draw number d (from 0) of the generator
\* rng = <<first, step>>
RandomByte(rng, d) == (rng[1] + d * rng[2]) % 256

\* 0 + 1 + ... + (x - 1)
Triangle(x) == IF x <= 0 THEN 0 ELSE (x * (x - 1)) \div 2

\* The j-th key (from 1) the loops of lines 379-384 generate for the sizes
\* lo..hi, ten keys per size, each of key_size random bytes.
TriedKey(rng, lo, j) ==
  LET key_size == lo + ((j - 1) \div 10)
      attempt == (j - 1) % 10
      drawn == 10 * (Triangle(key_size) - Triangle(lo)) + attempt * Max(key_size, 0)
  IN  Tuple([p \in 1..key_size |-> RandomByte(rng, drawn + p - 1)])

\* (mutant) the score divided by 10 instead of 100, and min(..., 1.0) left out
ScoreConfidenceTenth(best_score) ==
  IF best_score > 0 THEN Rat(best_score, 10) ELSE Rat(0, 1)

\* min(best_score / 100.0, 1.0) if best_score > 0 else 0.0
ScoreConfidence(best_score) ==
  IF best_score > 0
  THEN (IF best_score < 100 THEN Rat(best_score, 100) ELSE Rat(1, 1))
  ELSE Rat(0, 1)

\* (mutant) `if score >= best_score`: the last of the best candidates is kept
BestIndexLast(tried) ==
  IF Len(tried) = 0 THEN 0
  ELSE CHOOSE j \in 1..Len(tried) :
         /\ \A i \in 1..Len(tried) : tried[i].score <= tried[j].score
         /\ \A i \in (j + 1)..Len(tried) : tried[i].score < tried[j].score

\* The candidate the loop `if score > best_score` keeps out of the sequence
\* tried: the first one with the highest score; 0 if none was tried.
BestIndex(tried) ==
  IF Len(tried) = 0 THEN 0
  ELSE CHOOSE j \in 1..Len(tried) :
         /\ \A i \in 1..Len(tried) : tried[i].score <= tried[j].score
         /\ \A i \in 1..(j - 1) : tried[i].score < tried[j].score

\* decrypted and scored candidates, in the order tried
Candidates(content, keys) ==
  Tuple([j \in 1..Len(keys) |->
           LET decrypted == _xor_decrypt(content, keys[j])
           IN  [key |-> keys[j], decrypted |-> decrypted,
                score |-> _score_decryption_result(decrypted)]])

\* _apply_xor_bruteforce
_apply_xor_bruteforce(content, strategy, rng) ==
  LET key_size_range == Get(strategy, "key_size_range", <<1, 4>>)
  IN  IF key_size_range = None
      THEN {Err("'NoneType' object is not subscriptable")}
      ELSE
      LET lo == key_size_range[1]
          hi == key_size_range[2]
          n == IF hi >= lo THEN 10 * (hi - lo + 1) ELSE 0
          tried == Candidates(content, Tuple([j \in 1..n |-> TriedKey(rng, lo, j)]))
          best == BestIndex(tried)
          best_score == IF best = 0 THEN -1 ELSE tried[best].score
          best_key == IF best = 0 THEN None ELSE tried[best].key
          best_result == IF best = 0 THEN None ELSE tried[best].decrypted
          confidence == ScoreConfidence(best_score)
          details == [key_size |-> IF Truthy(best_key) THEN Len(best_key) ELSE 0,
                      key_hex |-> IF Truthy(best_key) THEN best_key ELSE None,
                      decryption_method |-> "XOR",
                      score |-> best_score]
      IN  IF RatLT(confidence, 4, 10)
          THEN {Result(d, Rat(75, 100), TRUE,
                       details @@ [note |-> "Simulated successful decryption for demonstration purposes"]) :
                  d \in _create_simulated_decryption(content, FALSE)}
          ELSE {Result(best_result, confidence, RatGT(confidence, 5, 10), details)}

\* known_headers of _apply_known_header_analysis
known_headers ==
  [zip |-> SigZIP, png |-> SigPNG, pdf |-> <<37, 80, 68, 70, 45, 49, 46>>, exe |-> SigEXE,
   jpeg |-> SigJPEG, text |-> TextDOCTYPE]

\* (mutant) a buffer shorter than the signature falls through to the
\* simulated result instead of returning at line 441
_apply_known_header_analysis_fallthrough(content, strategy) ==
  LET file_type == Get(strategy, "file_type", "unknown")
      simulated ==
        {Result(d, Rat(6, 10), TRUE,
                [decryption_method |-> "Header-based analysis",
                 note |-> "Simulated partial decryption for demonstration purposes"]) :
           d \in _create_simulated_decryption(content, TRUE)}
  IN  IF file_type \in DOMAIN known_headers /\ Len(content) >= Len(known_headers[file_type])
      THEN LET expected_header == known_headers[file_type]
               header_len == Len(expected_header)
               encrypted_header == Slice(content, 0, header_len)
               key == Tuple([i \in 1..header_len |-> Xor(encrypted_header[i], expected_header[i])])
               decrypted == _xor_decrypt(content, key)
           IN  IF StartsWith(decrypted, expected_header)
               THEN {Result(decrypted, Rat(8, 10), TRUE,
                            [key_hex |-> key, decryption_method |-> "Header-based XOR",
                             file_type |-> file_type])}
               ELSE simulated
      ELSE simulated

\* _apply_known_header_analysis
_apply_known_header_analysis(content, strategy) ==
  LET file_type == Get(strategy, "file_type", "unknown")
      simulated ==
        {Result(d, Rat(6, 10), TRUE,
                [decryption_method |-> "Header-based analysis",
                 note |-> "Simulated partial decryption for demonstration purposes"]) :
           d \in _create_simulated_decryption(content, TRUE)}
  IN  IF file_type \in DOMAIN known_headers
      THEN LET expected_header == known_headers[file_type]
               header_len == Len(expected_header)
               encrypted_header == Slice(content, 0, header_len)
               key == Tuple([i \in 1..header_len |-> Xor(encrypted_header[i], expected_header[i])])
               decrypted == _xor_decrypt(content, key)
           IN  IF Len(content) < header_len
               THEN {Result(None, Rat(0, 1), FALSE, [error |-> "Content too short"])}
               ELSE IF StartsWith(decrypted, expected_header)
               THEN {Result(decrypted, Rat(8, 10), TRUE,
                            [key_hex |-> key, decryption_method |-> "Header-based XOR",
                             file_type |-> file_type])}
               ELSE simulated
      ELSE simulated

\* the blocks content[i:i+block_size] for i in range(0, len(content), block_size)
Blocks(content, block_size) ==
  IF block_size < 0 THEN <<>>
  ELSE Tuple([b \in 1..((Len(content) + block_size - 1) \div block_size) |->
                Slice(content, (b - 1) * block_size, b * block_size)])

\* (mutant) counts the positions of repeated blocks instead of the distinct
\* block values that repeat
_apply_pattern_based_recovery_positions(content, strategy) ==
  LET block_size == Get(strategy, "block_size", 16)
  IN  IF block_size = 0
      THEN {Err("range() arg 3 must not be zero")}
      ELSE
      LET blocks == Blocks(content, block_size)
          positions(i) == {j \in 1..Len(blocks) : blocks[j] = blocks[i]}
          r == Cardinality({i \in 1..Len(blocks) : Cardinality(positions(i)) > 1})
          t == Max(Len(blocks), 1)
          confidence == Rat(4 * t + 3 * r, 10 * t)
          details == [decryption_method |-> "Pattern-based analysis",
                      repeating_blocks_count |-> r,
                      total_blocks |-> Len(blocks),
                      note |-> "Used repeating patterns to partially recover content"]
      IN  {Result(d, confidence, RatGT(confidence, 5, 10), details) :
             d \in _create_simulated_decryption(content, TRUE)}

\* _apply_pattern_based_recovery
_apply_pattern_based_recovery(content, strategy) ==
  LET block_size == Get(strategy, "block_size", 16)
  IN  IF block_size = 0
      THEN {Err("range() arg 3 must not be zero")}
      ELSE
      LET blocks == Blocks(content, block_size)
          positions(i) == {j \in 1..Len(blocks) : blocks[j] = blocks[i]}
          \* the keys of repeating_blocks: the block values at more than one position
          repeating_blocks == {blocks[i] : i \in {i \in 1..Len(blocks) : Cardinality(positions(i)) > 1}}
          r == Cardinality(repeating_blocks)
          t == Max(Len(blocks), 1)
          \* 0.4 + (r / t) * 0.3
          confidence == Rat(4 * t + 3 * r, 10 * t)
          details == [decryption_method |-> "Pattern-based analysis",
                      repeating_blocks_count |-> r,
                      total_blocks |-> Len(blocks),
                      note |-> "Used repeating patterns to partially recover content"]
      IN  {Result(d, confidence, RatGT(confidence, 5, 10), details) :
             d \in _create_simulated_decryption(content, TRUE)}

\* (mutant) the threshold 7.9 written for 7.5
_apply_partial_key_recovery_threshold79(content, strategy) ==
  LET entropy == _calculate_entropy(content)
  IN  IF EntropyGT(entropy, 79, 10)
      THEN {Result(None, Rat(3, 10), FALSE,
                   [decryption_method |-> "Partial key recovery", entropy |-> entropy,
                    note |-> "Unable to recover key - entropy too high"])}
      ELSE {Result(d, Rat(5, 10), TRUE,
                   [decryption_method |-> "Partial key recovery", entropy |-> entropy,
                    note |-> "Partially recovered encryption key"]) :
              d \in _create_simulated_decryption(content, TRUE)}

\* (mutant) the threshold 7.0 written for 7.5
_apply_partial_key_recovery_threshold7(content, strategy) ==
  LET entropy == _calculate_entropy(content)
  IN  IF EntropyGT(entropy, 70, 10)
      THEN {Result(None, Rat(3, 10), FALSE,
                   [decryption_method |-> "Partial key recovery", entropy |-> entropy,
                    note |-> "Unable to recover key - entropy too high"])}
      ELSE {Result(d, Rat(5, 10), TRUE,
                   [decryption_method |-> "Partial key recovery", entropy |-> entropy,
                    note |-> "Partially recovered encryption key"]) :
              d \in _create_simulated_decryption(content, TRUE)}

\* _apply_partial_key_recovery
_apply_partial_key_recovery(content, strategy) ==
  LET entropy == _calculate_entropy(content)
  IN  IF EntropyGT(entropy, 75, 10)
      THEN {Result(None, Rat(3, 10), FALSE,
                   [decryption_method |-> "Partial key recovery", entropy |-> entropy,
                    note |-> "Unable to recover key - entropy too high"])}
      ELSE {Result(d, Rat(5, 10), TRUE,
                   [decryption_method |-> "Partial key recovery", entropy |-> entropy,
                    note |-> "Partially recovered encryption key"]) :
              d \in _create_simulated_decryption(content, TRUE)}

\* bytes([0xff]), bytes([0xaa]), bytes([0x55]), b'key', b'password', b'admin', b'123456'
common_keys ==
  << <<255>>, <<170>>, <<85>>, <<107, 101, 121>>, <<112, 97, 115, 115, 119, 111, 114, 100>>, <<97, 100, 109, 105, 110>>, <<49, 50, 51, 52, 53, 54>> >>

\* content[::-1]
Reversed(content) == Tuple([i \in 1..Len(content) |-> content[Len(content) + 1 - i]])

\* (mutant) the reversed buffer (approach 2) is not tried
_apply_generic_recovery_no_reverse(content, strategy) ==
  LET tried == Candidates(content, common_keys)
      best == BestIndex(tried)
      best_score == tried[best].score
      best_result == tried[best].decrypted
      confidence == ScoreConfidence(best_score)
      key_found == RatGT(confidence, 5, 10)
      details == [decryption_method |-> "Generic recovery techniques",
                  score |-> best_score]
  IN  IF RatLT(confidence, 3, 10)
      THEN {Result(d, Rat(4, 10), key_found,
                   details @@ [note |-> "Simulated partial recovery for demonstration purposes"]) :
              d \in _create_simulated_decryption(content, TRUE)}
      ELSE {Result(best_result, confidence, key_found,
                   details @@ [note |-> "Applied multiple generic recovery methods"])}

\* _apply_generic_recovery
_apply_generic_recovery(content, strategy) ==
  LET xored == Candidates(content, common_keys)
      reversed_content == Reversed(content)
      \* the reversed buffer is tried last, under the same `score > best_score`
      tried == Append(xored, [key |-> None, decrypted |-> reversed_content,
                              score |-> _score_decryption_result(reversed_content)])
      best == BestIndex(tried)
      best_score == tried[best].score
      best_result == tried[best].decrypted
      confidence == ScoreConfidence(best_score)
      key_found == RatGT(confidence, 5, 10)
      details == [decryption_method |-> "Generic recovery techniques",
                  score |-> best_score]
  IN  IF RatLT(confidence, 3, 10)
      THEN {Result(d, Rat(4, 10), key_found,
                   details @@ [note |-> "Simulated partial recovery for demonstration purposes"]) :
              d \in _create_simulated_decryption(content, TRUE)}
      ELSE {Result(best_result, confidence, key_found,
                   details @@ [note |-> "Applied multiple generic recovery methods"])}

\* Lines 87-100: the dispatch on strategy.get('name', 'unknown').
ApplyStrategy(content, strategy, rng) ==
  LET strategy_type == Get(strategy, "name", "unknown")
  IN  IF strategy_type = "xor_bruteforce" THEN _apply_xor_bruteforce(content, strategy, rng)
      ELSE IF strategy_type = "known_header_analysis"
      THEN _apply_known_header_analysis(content, strategy)
      ELSE IF strategy_type = "pattern_based_recovery"
      THEN _apply_pattern_based_recovery(content, strategy)
      ELSE IF strategy_type = "partial_key_recovery"
      THEN _apply_partial_key_recovery(content, strategy)
      ELSE _apply_generic_recovery(content, strategy)

\* (mutant) the full threshold compared with >= instead of >
SuccessLevelInclusive(decrypted_content, confidence) ==
  IF Truthy(decrypted_content) /\ RatGE(confidence, 8, 10) THEN "full"
  ELSE IF Truthy(decrypted_content) /\ RatGT(confidence, 3, 10) THEN "partial"
  ELSE "failed"

\* Lines 102-111: the success level of a branch result.
SuccessLevel(decrypted_content, confidence) ==
  IF Truthy(decrypted_content) /\ RatGT(confidence, 8, 10) THEN "full"
  ELSE IF Truthy(decrypted_content) /\ RatGT(confidence, 3, 10) THEN "partial"
  ELSE "failed"

\* Lines 103-111: the message that goes with the success level.
LevelMessage(success_level) ==
  IF success_level = "full" THEN "File successfully decrypted"
  ELSE IF success_level = "partial" THEN "File partially decrypted"
  ELSE "Decryption failed, could not recover file"

(***************************************************************************)
(* Inputs of attempt_decryption                                            *)
(***************************************************************************)
\* b'%PDF-1.4\nhello' XOR-encrypted with the key b'\x01'
BufPdfXor01 == _xor_decrypt(<<37, 80, 68, 70, 45, 49, 46, 52, 10, 104, 101, 108, 108, 111>>, <<1>>)

\* b'%PDF-1.4\nhello' XOR-encrypted with the key b'\xaa'
BufPdfXorAA == _xor_decrypt(<<37, 80, 68, 70, 45, 49, 46, 52, 10, 104, 101, 108, 108, 111>>, <<170>>)

\* b'<html>hi</html>' XOR-encrypted with the key b'\xff'
BufHtmlXorFF == _xor_decrypt(<<60, 104, 116, 109, 108, 62, 104, 105, 60, 47, 104, 116, 109, 108, 62>>, <<255>>)

\* The tuning flags the web layer overlays for processing_priority
\* 'thorough' (routes.py, lines 191-196).
Thorough ==
  [exhaustive_search |-> TRUE, deep_analysis |-> TRUE, timeout_multiplier |-> Rat(2, 1)]

StratXor == [name |-> "xor_bruteforce", key_size_range |-> <<1, 8>>,
             success_probability |-> Rat(7, 10)]

StratHeader(file_type) ==
  [name |-> "known_header_analysis", file_type |-> file_type,
   success_probability |-> Rat(6, 10)]

StratPattern(block_size) ==
  [name |-> "pattern_based_recovery", block_size |-> block_size,
   success_probability |-> Rat(5, 10)]

StratPartial == [name |-> "partial_key_recovery", success_probability |-> Rat(3, 10)]

StratGeneric == [name |-> "generic_recovery", success_probability |-> Rat(2, 10)]

\* The calls explored: the buffer, the strategy (as _develop_decryption_strategy
\* builds it, overlaid, or with parameters missing or malformed) and the
\* generator behind random.randint.
RecoverInputs ==
  << [file_content |-> BufPdfXor01, strategy |-> StratXor, rng |-> <<1, 0>>],
     [file_content |-> BufWeakZip, strategy |-> StratHeader("zip"), rng |-> <<0, 0>>],
     [file_content |-> BufStrongSkew, strategy |-> StratPartial, rng |-> <<0, 0>>],
     [file_content |-> BufPdfXor01, strategy |-> StratXor, rng |-> <<7, 13>>],
     [file_content |-> BufEmpty, strategy |-> StratXor, rng |-> <<7, 13>>],
     [file_content |-> BufShortText,
      strategy |-> [name |-> "xor_bruteforce", key_size_range |-> None], rng |-> <<7, 13>>],
     [file_content |-> BufShortText,
      strategy |-> [name |-> "xor_bruteforce", key_size_range |-> <<2, 1>>], rng |-> <<7, 13>>],
     [file_content |-> BufShortText, strategy |-> [name |-> "xor_bruteforce"], rng |-> <<72, 33>>],
     [file_content |-> BufMediumRamp, strategy |-> StratXor @@ Thorough, rng |-> <<7, 13>>],
     [file_content |-> BufShortText, strategy |-> StratHeader("zip"), rng |-> <<0, 0>>],
     [file_content |-> BufShortText, strategy |-> [name |-> "known_header_analysis"], rng |-> <<0, 0>>],
     [file_content |-> BufWeakText, strategy |-> StratHeader("text"), rng |-> <<0, 0>>],
     [file_content |-> BufRepeat, strategy |-> StratPattern(16), rng |-> <<0, 0>>],
     [file_content |-> BufEmpty, strategy |-> StratPattern(16), rng |-> <<0, 0>>],
     [file_content |-> BufRepeat, strategy |-> StratPattern(0), rng |-> <<0, 0>>],
     [file_content |-> BufMediumSkew, strategy |-> StratPartial @@ Thorough, rng |-> <<0, 0>>],
     [file_content |-> BufEmpty, strategy |-> StratGeneric, rng |-> <<0, 0>>],
     [file_content |-> BufJson, strategy |-> StratGeneric, rng |-> <<0, 0>>],
     [file_content |-> BufShortText, strategy |-> [success_probability |-> Rat(0, 1)], rng |-> <<0, 0>>],
     [file_content |-> BufRamp256, strategy |-> StratGeneric, rng |-> <<0, 0>>],
     [file_content |-> BufHtmlXorFF, strategy |-> StratGeneric, rng |-> <<0, 0>>],
     [file_content |-> BufPdfXorAA, strategy |-> [name |-> "unknown"], rng |-> <<0, 0>>],
     [file_content |-> BufEmpty, strategy |-> StratPartial, rng |-> <<0, 0>>] >>

\* The possible branch results of each call of RecoverInputs.
BranchResults ==
  Tuple([i \in 1..Len(RecoverInputs) |->
           ApplyStrategy(RecoverInputs[i].file_content, RecoverInputs[i].strategy,
                         RecoverInputs[i].rng)])

(***************************************************************************)
(* The engine as a state machine                                           *)
(*                                                                         *)
(* decryption_cache is self.decryption_cache; now is the wall clock in     *)
(* whole seconds; each caller thread w runs attempt_decryption step by     *)
(* step (pc, args, locals, ret) and then may call get_decrypted_content    *)
(* (fetched).                                                              *)
(***************************************************************************)
\* the number of caller threads
NumWorkers == 2

\* the number of attempt_decryption calls in one behaviour
MaxCalls == 2

\* the seconds the clock can advance
MaxClock == 1

Workers == 1..NumWorkers

\* f"decryption_{datetime.utcnow().strftime('%Y%m%d%H%M%S')}": the prefix and
\* the timestamp, which has a resolution of one second.
DecryptionId(t) == <<"decryption_", t>>

\* an integer record id, as the web layer passes one
IntId(n) == <<"int", n>>

\* str(x): a str is itself, an int n is its decimal digits (no prefix).
Str(x) == IF x[1] = "int" THEN <<"", x[2]>> ELSE x

\* dict.get(key) on the cache: the value, or None
CacheGet(cache, key) == IF key \in DOMAIN cache THEN cache[key] ELSE None

\* get_decrypted_content
get_decrypted_content(cache, decryption_id) == CacheGet(cache, Str(decryption_id))

\* no helper of the engine has been called on its own yet
NoUnit == [fn |-> "none"]

\* no request has been handled yet
NoRequest == [route |-> "none"]

\* encryption_type before the classifier has run
NoLabel == <<>>

\* self, file_content, strategy of a call; of self, the cache as the call
\* found it
NoArgs == [cache_at_call |-> EmptyDict, file_content |-> None, strategy |-> EmptyDict]

NoLocals == [success_level |-> "unset"]

NoReturn == [success_level |-> "unset"]

NoFetch == [decryption_id |-> None, content |-> None]

Init ==
  /\ decryption_cache = EmptyDict
  /\ now = 0
  /\ ncalls = 0
  /\ pc = [w \in Workers |-> "idle"]
  /\ args = [w \in Workers |-> NoArgs]
  /\ locals = [w \in Workers |-> NoLocals]
  /\ ret = [w \in Workers |-> NoReturn]
  /\ fetched = [w \in Workers |-> NoFetch]
  /\ profile = EmptyDict
  /\ etype = NoLabel
  /\ etype2 = NoLabel
  /\ strat = EmptyDict
  /\ analysis = EmptyDict
  /\ unit = NoUnit
  /\ attempts = <<>>
  /\ handler = NoRequest

\* (mutant) only a full result is cached
ShouldCacheFullOnly(decrypted_content, success_level) ==
  Truthy(decrypted_content) /\ success_level = "full"

\* line 115: if decrypted_content and success_level in ['full', 'partial']
ShouldCache(decrypted_content, success_level) ==
  Truthy(decrypted_content) /\ success_level \in {"full", "partial"}

\* attempt_decryption, lines 63-116: thread w is called with input number i,
\* runs the strategy branch and grades its result r; an exception goes to
\* the except clause.
Call(w, i, r) ==
  /\ pc[w] = "idle"
  /\ ncalls < MaxCalls
  /\ ncalls' = ncalls + 1
  /\ args' = [args EXCEPT ![w] = [cache_at_call |-> decryption_cache,
                                  file_content |-> RecoverInputs[i].file_content,
                                  strategy |-> RecoverInputs[i].strategy]]
  /\ IF r.exc # ""
     THEN /\ locals' = [locals EXCEPT ![w] = [success_level |-> "failed", e |-> r.exc]]
          /\ pc' = [pc EXCEPT ![w] = "except"]
     ELSE LET success_level == SuccessLevel(r.val.decrypted_content, r.val.confidence)
          IN  /\ locals' = [locals EXCEPT ![w] =
                              [success_level |-> success_level,
                               decrypted_content |-> r.val.decrypted_content,
                               confidence |-> r.val.confidence,
                               key_found |-> r.val.key_found,
                               message |-> LevelMessage(success_level),
                               details |-> r.val.details]]
              /\ pc' = [pc EXCEPT ![w] =
                          IF ShouldCache(r.val.decrypted_content, success_level)
                          THEN "mint" ELSE "return"]
  /\ UNCHANGED <<decryption_cache, now, ret, fetched, pureVars, webVars>>

\* line 118: the identifier is minted from the clock
Mint(w) ==
  /\ pc[w] = "mint"
  /\ locals' = [locals EXCEPT ![w] = locals[w] @@ [decryption_id |-> DecryptionId(now)]]
  /\ pc' = [pc EXCEPT ![w] = "put"]
  /\ UNCHANGED <<decryption_cache, now, ncalls, args, ret, fetched, pureVars, webVars>>

\* (mutant) an existing entry is kept, as dict.setdefault would
CachePutIfAbsent(cache, decryption_id, decrypted_content) ==
  cache @@ (decryption_id :> decrypted_content)

\* self.decryption_cache[decryption_id] = decrypted_content
CachePut(cache, decryption_id, decrypted_content) ==
  (decryption_id :> decrypted_content) @@ cache

\* lines 119-120: the cache insertion, and the identifier into details
Put(w) ==
  /\ pc[w] = "put"
  /\ decryption_cache' =
       CachePut(decryption_cache, locals[w].decryption_id, locals[w].decrypted_content)
  /\ locals' = [locals EXCEPT ![w].details =
                  [decryption_id |-> locals[w].decryption_id] @@ locals[w].details]
  /\ pc' = [pc EXCEPT ![w] = "return"]
  /\ UNCHANGED <<now, ncalls, args, ret, fetched, pureVars, webVars>>

\* lines 122-130: the outcome returned
Return(w) ==
  /\ pc[w] = "return"
  /\ ret' = [ret EXCEPT ![w] =
               [success_level |-> locals[w].success_level,
                decrypted_content |-> locals[w].decrypted_content,
                confidence |-> locals[w].confidence,
                key_found |-> locals[w].key_found,
                message |-> locals[w].message,
                execution_time |-> "elapsed",
                details |-> locals[w].details]]
  /\ pc' = [pc EXCEPT ![w] = "done"]
  /\ UNCHANGED <<decryption_cache, now, ncalls, args, locals, fetched, pureVars, webVars>>

\* (mutant) the except clause returns the defaults of lines 80-85
ErrorOutcomeDefaults(e) ==
  [success_level |-> "failed",
   decrypted_content |-> None,
   confidence |-> Rat(0, 1),
   key_found |-> FALSE,
   message |-> <<"Decryption failed">>,
   execution_time |-> "elapsed",
   details |-> EmptyDict]

\* lines 135-143: the dict the except clause returns for the exception e
ErrorOutcome(e) ==
  [success_level |-> "failed",
   decrypted_content |-> None,
   confidence |-> Rat(0, 1),
   key_found |-> FALSE,
   message |-> <<"Error during decryption: ", e>>,
   execution_time |-> "elapsed",
   details |-> [error |-> e]]

\* lines 132-143: the except clause
Except(w) ==
  /\ pc[w] = "except"
  /\ ret' = [ret EXCEPT ![w] = ErrorOutcome(locals[w].e)]
  /\ pc' = [pc EXCEPT ![w] = "done"]
  /\ UNCHANGED <<decryption_cache, now, ncalls, args, locals, fetched, pureVars, webVars>>

\* The identifiers a caller may ask for: the one its outcome carries, any
\* timestamp identifier, and an integer record id.
ProbeIds(w) ==
  {DecryptionId(t) : t \in 0..MaxClock} \cup {IntId(1)}
    \cup (IF "decryption_id" \in DOMAIN Get(ret[w], "details", EmptyDict)
          THEN {ret[w].details.decryption_id} ELSE {})

\* the caller of w's finished call looks an identifier up
Fetch(w, id) ==
  /\ pc[w] = "done"
  /\ fetched' = [fetched EXCEPT ![w] =
                   [decryption_id |-> id,
                    content |-> get_decrypted_content(decryption_cache, id)]]
  /\ UNCHANGED <<decryption_cache, now, ncalls, pc, args, locals, ret, pureVars, webVars>>

\* the caller drops the outcome; the thread is free for the next call
Finish(w) ==
  /\ pc[w] = "done"
  /\ pc' = [pc EXCEPT ![w] = "idle"]
  /\ args' = [args EXCEPT ![w] = NoArgs]
  /\ locals' = [locals EXCEPT ![w] = NoLocals]
  /\ ret' = [ret EXCEPT ![w] = NoReturn]
  /\ fetched' = [fetched EXCEPT ![w] = NoFetch]
  /\ UNCHANGED <<decryption_cache, now, ncalls, pureVars, webVars>>

\* a second passes
Tick ==
  /\ now < MaxClock
  /\ now' = now + 1
  /\ UNCHANGED <<decryption_cache, ncalls, pc, args, locals, ret, fetched, pureVars, webVars>>

\* One caller at a time: every call of RecoverInputs, by thread 1.
Next ==
  \/ \E i \in 1..Len(RecoverInputs) : \E r \in BranchResults[i] : Call(1, i, r)
  \/ Mint(1)
  \/ Put(1)
  \/ Return(1)
  \/ Except(1)
  \/ \E id \in ProbeIds(1) : Fetch(1, id)
  \/ Finish(1)
  \/ Tick

Spec == Init /\ [][Next]_vars

\* the calls the concurrent callers make: a full, a partial, a failed one
\* and one whose branch raises
ConcInputs == {1, 2, 3, 6}

\* Concurrent callers: any thread may take any step.
NextConc ==
  \/ \E w \in Workers : \E i \in ConcInputs : \E r \in BranchResults[i] : Call(w, i, r)
  \/ \E w \in Workers : Mint(w)
  \/ \E w \in Workers : Put(w)
  \/ \E w \in Workers : Return(w)
  \/ \E w \in Workers : Except(w)
  \/ \E w \in Workers : Finish(w)
  \/ Tick

SpecConc == Init /\ [][NextConc]_vars

(***************************************************************************)
(* The analysis functions on their own                                     *)
(*                                                                         *)
(* profile is the argument tuple of the classifier and the selector;       *)
(* etype and etype2 are two evaluations of the classifier on it, strat the *)
(* selector's result, analysis one call of analyze_encryption.             *)
(***************************************************************************)
\* the buffers analyze_encryption is called with
Buffers ==
  <<BufEmpty, BufShortText, BufMarker, BufJson, BufZipZeros, BufRepeat,
    BufEntropy6, BufSimple, BufWeakZip, BufWeakText, BufEntropy7,
    BufMediumSkew, BufMediumRamp, BufRamp256, BufStrongSkew,
    BufZip1000, BufZip16, BufZip8, Fill(7, 64)>>

\* lines 36-39: what the profiler hands to the classifier for a buffer
ProfileOf(content) ==
  [entropy |-> _calculate_entropy(content),
   byte_distribution |-> _analyze_byte_distribution(content).val,
   header_analysis |-> _analyze_file_header(content),
   pattern_analysis |-> _detect_encryption_patterns(content).val]

\* entropies at, next to and between the band edges 6.0, 7.0, 7.8
EntropyValues ==
  {0, 6 * EntropyScale - 1, 6 * EntropyScale, 6 * EntropyScale + 1,
   7 * EntropyScale, 7 * EntropyScale + 1,
   (78 * EntropyScale) \div 10, (78 * EntropyScale) \div 10 + 1,
   8 * EntropyScale}

\* distribution statistics: of no bytes, of a flat and of a skewed histogram
Distributions ==
  {EmptyDict, _analyze_byte_distribution(BufRamp256).val,
   _analyze_byte_distribution(BufStrongSkew).val}

\* header analyses: of a short buffer, of each signature, of text, of none
Headers ==
  {_analyze_file_header(<<>>),
   _analyze_file_header(SigZIP \o Fill(0, 12)),
   _analyze_file_header(SigPNG \o Fill(0, 8)),
   _analyze_file_header(SigPDF \o Fill(0, 12)),
   _analyze_file_header(SigEXE \o Fill(0, 14)),
   _analyze_file_header(SigJPEG \o Fill(0, 13)),
   _analyze_file_header(Fill(65, 16)),
   _analyze_file_header(Fill(0, 16))}

Patterns ==
  [has_repeating_blocks : BOOLEAN, possible_xor : BOOLEAN,
   has_ransomware_markers : BOOLEAN]

\* A profile the profiler can hand over: absent statistics only come with
\* the empty buffer (entropy 0, no header, no flag).
ValidProfile(p) ==
  p.byte_distribution = EmptyDict =>
    /\ p.entropy = 0
    /\ p.header_analysis = _analyze_file_header(<<>>)
    /\ p.pattern_analysis = [has_repeating_blocks |-> FALSE, possible_xor |-> FALSE,
                             has_ransomware_markers |-> FALSE]

Profiles ==
  {p \in [entropy : EntropyValues, byte_distribution : Distributions,
          header_analysis : Headers, pattern_analysis : Patterns] : ValidProfile(p)}
    \cup {ProfileOf(Buffers[i]) :
            i \in {j \in DOMAIN Buffers :
                     /\ _analyze_byte_distribution(Buffers[j]).exc = ""
                     /\ _detect_encryption_patterns(Buffers[j]).exc = ""}}

AnalysisResults == Tuple([i \in DOMAIN Buffers |-> analyze_encryption(Buffers[i])])

InitAnalysis ==
  /\ decryption_cache = EmptyDict
  /\ now = 0
  /\ ncalls = 0
  /\ pc = [w \in Workers |-> "idle"]
  /\ args = [w \in Workers |-> NoArgs]
  /\ locals = [w \in Workers |-> NoLocals]
  /\ ret = [w \in Workers |-> NoReturn]
  /\ fetched = [w \in Workers |-> NoFetch]
  /\ profile \in Profiles
  /\ etype = NoLabel
  /\ etype2 = NoLabel
  /\ strat = EmptyDict
  /\ analysis = EmptyDict
  /\ unit = NoUnit
  /\ attempts = <<>>
  /\ handler = NoRequest

\* _determine_encryption_type is called on the profile
Classify ==
  /\ etype = NoLabel
  /\ etype' = _determine_encryption_type(profile.entropy, profile.byte_distribution,
                                         profile.header_analysis, profile.pattern_analysis)
  /\ UNCHANGED <<engineVars, profile, etype2, strat, analysis, unit, webVars>>

\* ... and called a second time on the same profile
ClassifyAgain ==
  /\ etype # NoLabel
  /\ etype2 = NoLabel
  /\ etype2' = _determine_encryption_type(profile.entropy, profile.byte_distribution,
                                          profile.header_analysis, profile.pattern_analysis)
  /\ UNCHANGED <<engineVars, profile, etype, strat, analysis, unit, webVars>>

\* line 45: _develop_decryption_strategy is called with the classifier's label
Select ==
  /\ etype # NoLabel
  /\ strat = EmptyDict
  /\ strat' = _develop_decryption_strategy(etype, profile.entropy, profile.byte_distribution,
                                           profile.header_analysis, profile.pattern_analysis)
  /\ UNCHANGED <<engineVars, profile, etype, etype2, analysis, unit, webVars>>

\* analyze_encryption is called on buffer number i
Analyze(i) ==
  /\ analysis = EmptyDict
  /\ analysis' = [file_content |-> Buffers[i], result |-> AnalysisResults[i]]
  /\ UNCHANGED <<engineVars, profile, etype, etype2, strat, unit, webVars>>

NextAnalysis ==
  \/ Classify
  \/ ClassifyAgain
  \/ Select
  \/ \E i \in DOMAIN Buffers : Analyze(i)

SpecAnalysis == InitAnalysis /\ [][NextAnalysis]_vars

(***************************************************************************)
(* Properties of attempt_decryption and the cache                          *)
(***************************************************************************)
\* the decrypted bytes of an outcome are present and not empty
HasBytes(o) == o.decrypted_content # None /\ Len(o.decrypted_content) > 0

\* 10 * confidence, compared as integers: confidence = c[1] / c[2]
Above(c, tenths) == 10 * c[1] > tenths * c[2]

\* the outcomes that have been returned and not yet dropped
Returned == {w \in Workers : pc[w] = "done"}

\* C1: every returned outcome is full iff confidence > 0.8 with non-empty
\* bytes, partial iff 0.3 < confidence <= 0.8 with non-empty bytes, and
\* failed in every other case.
C1_SuccessLevelGrading ==
  \A w \in Returned :
    LET o == ret[w]
    IN  /\ o.success_level \in {"full", "partial", "failed"}
        /\ o.success_level = "full" <=> (HasBytes(o) /\ Above(o.confidence, 8))
        /\ o.success_level = "partial" <=>
             (HasBytes(o) /\ Above(o.confidence, 3) /\ ~Above(o.confidence, 8))
        /\ o.success_level = "failed" <=> ~(HasBytes(o) /\ Above(o.confidence, 3))

\* C1 witness: an outcome with confidence exactly 0.8 and bytes is partial
C1_Witness ==
  \E w \in Returned :
    /\ HasBytes(ret[w])
    /\ 10 * ret[w].confidence[1] = 8 * ret[w].confidence[2]
    /\ ret[w].success_level = "partial"

\* the call of w has put decrypted_content under decryption_id and changed
\* nothing else of the cache it found
PutBy(w) ==
  /\ "decryption_id" \in DOMAIN ret[w].details
  /\ ret[w].details.decryption_id \in DOMAIN decryption_cache
  /\ decryption_cache[ret[w].details.decryption_id] = ret[w].decrypted_content
  /\ \A k \in DOMAIN args[w].cache_at_call :
       k # ret[w].details.decryption_id =>
         k \in DOMAIN decryption_cache /\ decryption_cache[k] = args[w].cache_at_call[k]
  /\ DOMAIN decryption_cache \subseteq
       DOMAIN args[w].cache_at_call \cup {ret[w].details.decryption_id}

\* C2: with one caller at a time, a call has put an entry iff its outcome
\* is full or partial; a call that returns failed, an exception included,
\* leaves the cache as the call found it.
C2_PutIffFullOrPartial ==
  \A w \in Returned :
    /\ ret[w].success_level \in {"full", "partial"} => PutBy(w)
    /\ ret[w].success_level = "failed" =>
         /\ decryption_cache = args[w].cache_at_call
         /\ "decryption_id" \notin DOMAIN ret[w].details

\* C2 witness: a call that failed through an exception returns over a cache
\* that holds an entry of an earlier call
C2_Witness ==
  \E w \in Returned :
    /\ ret[w].success_level = "failed"
    /\ "error" \in DOMAIN ret[w].details
    /\ DOMAIN decryption_cache # {}
    /\ decryption_cache = args[w].cache_at_call

\* C3: with one caller at a time, looking up the identifier in the details
\* of a full or partial outcome returns the outcome's bytes; looking up an
\* identifier that is no timestamp of the clock so far returns None.
C3_RoundTrip ==
  \A w \in Returned :
    fetched[w] # NoFetch =>
      /\ (/\ ret[w].success_level \in {"full", "partial"}
          /\ fetched[w].decryption_id = ret[w].details.decryption_id)
           => fetched[w].content = ret[w].decrypted_content
      /\ fetched[w].decryption_id \notin {DecryptionId(t) : t \in 0..now}
           => fetched[w].content = None

\* C3 witness: the second call of the same second is looked up by its
\* identifier and its own bytes come back
C3_Witness ==
  \E w \in Returned :
    /\ ret[w].success_level \in {"full", "partial"}
    /\ DOMAIN args[w].cache_at_call # {}
    /\ fetched[w].decryption_id = ret[w].details.decryption_id
    /\ fetched[w].content = ret[w].decrypted_content
    /\ fetched[w].content # args[w].cache_at_call[fetched[w].decryption_id]

\* C3 witness, second part: an integer record id finds nothing in a cache
\* that holds entries
C3_WitnessUnknown ==
  \E w \in Returned :
    /\ fetched[w].decryption_id = IntId(1)
    /\ fetched[w].content = None
    /\ DOMAIN decryption_cache # {}
\* every thread has returned a full or partial outcome of a call of its own
\* buffer, and no other call was made
AllSucceeded ==
  /\ ncalls = NumWorkers
  /\ Returned = Workers
  /\ \A w \in Workers : ret[w].success_level \in {"full", "partial"}
  /\ \A v, w \in Workers : v # w => args[v].file_content # args[w].file_content

\* C4: after NumWorkers concurrent calls on distinct buffers that each end
\* full or partial, the cache holds NumWorkers entries, and under the
\* identifier of each call that call's own bytes.
C4_OneEntryPerCall ==
  AllSucceeded =>
    /\ Cardinality(DOMAIN decryption_cache) = NumWorkers
    /\ \A w \in Workers :
         decryption_cache[ret[w].details.decryption_id] = ret[w].decrypted_content

\* C5: no step removes or overwrites an entry of the cache, and an
\* identifier that is put is not a key of the cache already.
C5_InsertOnly ==
  [][\A k \in DOMAIN decryption_cache :
       k \in DOMAIN decryption_cache' /\ decryption_cache'[k] = decryption_cache[k]]_vars

\* the seven fields of the dict attempt_decryption returns
OutcomeFields ==
  {"success_level", "decrypted_content", "confidence", "key_found", "message",
   "execution_time", "details"}

\* C6: every call returns an outcome; a call in which a branch raised
\* returns failed, confidence 0, no bytes, and the exception's text in
\* details.error.
C6_ExceptionsBecomeFailed ==
  \A w \in Workers :
    /\ pc[w] \in {"idle", "mint", "put", "return", "except", "done"}
    /\ pc[w] = "done" => DOMAIN ret[w] = OutcomeFields
    /\ (pc[w] = "done" /\ "e" \in DOMAIN locals[w]) =>
         /\ ret[w].success_level = "failed"
         /\ ret[w].confidence[1] = 0
         /\ ret[w].decrypted_content = None
         /\ ret[w].key_found = FALSE
         /\ ret[w].details = [error |-> locals[w].e]

\* C6 witness: the pattern branch raised on a block size of 0 and the call
\* returned the failed outcome
C6_Witness ==
  \E w \in Returned :
    /\ args[w].strategy = StratPattern(0)
    /\ ret[w].success_level = "failed"
    /\ "error" \in DOMAIN ret[w].details

(***************************************************************************)
(* Properties of the analysis functions                                    *)
(***************************************************************************)
\* the five fields of the dict analyze_encryption returns
AnalysisFields == {"encryption_type", "file_size", "entropy", "analysis_time", "strategy"}

\* the encryption types the classifier can name
EncryptionTypes ==
  {LabelAESECB, LabelStrongUniform, LabelStrongUnknown, LabelXOR, LabelMedium,
   LabelSimple, LabelMarker, LabelNone}
    \cup {LabelWeakOver(t) : t \in FileTypes \ {"unknown"}}

\* the five strategy names
StrategyNames ==
  {"xor_bruteforce", "known_header_analysis", "pattern_based_recovery",
   "partial_key_recovery", "generic_recovery"}

\* C7: every call of analyze_encryption on a buffer, the empty one
\* included, raises nothing and returns the five fields, with the size of
\* the buffer, a type the classifier names and one of the five strategies.
C7_AnalyzeTotal ==
  analysis # EmptyDict =>
    /\ analysis.result.exc = ""
    /\ DOMAIN analysis.result.val = AnalysisFields
    /\ analysis.result.val.file_size = Len(analysis.file_content)
    /\ analysis.result.val.encryption_type \in EncryptionTypes
    /\ analysis.result.val.strategy.name \in StrategyNames

\* C7 witness: the empty buffer is analysed: no encryption, generic recovery
C7_Witness ==
  /\ analysis # EmptyDict
  /\ analysis.file_content = <<>>
  /\ analysis.result.exc = ""
  /\ analysis.result.val.file_size = 0
  /\ analysis.result.val.encryption_type = LabelNone
  /\ analysis.result.val.strategy.name = "generic_recovery"

\* the signals of the profile, as the classifier's bands name them
Repeating == profile.pattern_analysis.has_repeating_blocks

XorFlagged == profile.pattern_analysis.possible_xor

MarkersFlagged == profile.pattern_analysis.has_ransomware_markers

Uniform ==
  "is_uniform" \in DOMAIN profile.byte_distribution /\ profile.byte_distribution.is_uniform

HeaderIdentified == profile.header_analysis.identified

\* entropy > tenths / 10 bits, the entropy being in 1/EntropyScale bit
EntropyAbove(tenths) == 10 * profile.entropy > tenths * EntropyScale

\* C8: the label follows the entropy bands (78, inf), (70, 78], (60, 70],
\* [0, 60] in tenths of a bit, and in each band the flag the band reads.
C8_EntropyBands ==
  etype # NoLabel =>
    /\ EntropyAbove(78) =>
         etype = IF Repeating THEN LabelAESECB
                 ELSE IF Uniform THEN LabelStrongUniform ELSE LabelStrongUnknown
    /\ (EntropyAbove(70) /\ ~EntropyAbove(78)) =>
         etype = IF XorFlagged THEN LabelXOR ELSE LabelMedium
    /\ (EntropyAbove(60) /\ ~EntropyAbove(70)) =>
         etype = IF HeaderIdentified
                 THEN LabelWeakOver(profile.header_analysis.file_type)
                 ELSE LabelSimple
    /\ ~EntropyAbove(60) =>
         etype = IF MarkersFlagged THEN LabelMarker ELSE LabelNone

\* C8 witness: entropy exactly 7.8 with every flag set is in the second
\* band: XOR
C8_Witness ==
  /\ 10 * profile.entropy = 78 * EntropyScale
  /\ Repeating /\ XorFlagged /\ MarkersFlagged /\ Uniform
  /\ etype = LabelXOR

Probability(s, tenths) ==
  10 * s.success_probability[1] = tenths * s.success_probability[2]

\* C10: the strategy is the one of the first condition that holds, with its
\* parameters and probability.
C10_FirstMatchingStrategy ==
  strat # EmptyDict =>
    LET isXor == etype = LabelXOR
        isWeak == (\E t \in FileTypes : etype = LabelWeakOver(t)) /\ HeaderIdentified
        partial == EntropyAbove(70) /\ ~Uniform
    IN  /\ isXor =>
              /\ strat.name = "xor_bruteforce"
              /\ DOMAIN strat = {"name", "key_size_range", "success_probability"}
              /\ strat.key_size_range = <<1, 8>>
              /\ Probability(strat, 7)
        /\ (~isXor /\ isWeak) =>
              /\ strat.name = "known_header_analysis"
              /\ DOMAIN strat = {"name", "file_type", "success_probability"}
              /\ etype = LabelWeakOver(strat.file_type)
              /\ Probability(strat, 6)
        /\ (~isXor /\ ~isWeak /\ Repeating) =>
              /\ strat.name = "pattern_based_recovery"
              /\ DOMAIN strat = {"name", "block_size", "success_probability"}
              /\ strat.block_size = 16
              /\ Probability(strat, 5)
        /\ (~isXor /\ ~isWeak /\ ~Repeating /\ partial) =>
              /\ strat.name = "partial_key_recovery"
              /\ DOMAIN strat = {"name", "success_probability"}
              /\ Probability(strat, 3)
        /\ (~isXor /\ ~isWeak /\ ~Repeating /\ ~partial) =>
              /\ strat.name = "generic_recovery"
              /\ DOMAIN strat = {"name", "success_probability"}
              /\ Probability(strat, 2)

\* C10 witness: a weak-over-zip label with repeating blocks flagged gets the
\* header strategy, the earlier condition
C10_Witness ==
  /\ etype = LabelWeakOver("zip")
  /\ Repeating
  /\ strat # EmptyDict
  /\ strat.name = "known_header_analysis"
  /\ strat.file_type = "zip"

(***************************************************************************)
(* The helpers of the engine called on their own                           *)
(*                                                                         *)
(* unit is the last such call: the function, its arguments, its result.    *)
(***************************************************************************)
\* lines 36-39: the four steps of the profiler on a buffer, each with the
\* exception it raises, if any
ProfilerSteps(data) ==
  [fn |-> "profile",
   data |-> data,
   entropy |-> _calculate_entropy(data),
   byte_distribution |-> _analyze_byte_distribution(data),
   header_analysis |-> _analyze_file_header(data),
   pattern_analysis |-> _detect_encryption_patterns(data)]

ProfilerResults == Tuple([i \in DOMAIN Buffers |-> ProfilerSteps(Buffers[i])])

\* the profiler runs on buffer number i
Profile(i) ==
  /\ unit' = ProfilerResults[i]
  /\ UNCHANGED <<engineVars, profile, etype, etype2, strat, analysis, webVars>>

\* the buffers the scorer is called with: None, the catalogue, and three
\* encrypted buffers decrypted under each of the common keys
ScoreInputs ==
  <<None>> \o Buffers
    \o Tuple([j \in DOMAIN common_keys |-> _xor_decrypt(BufPdfXorAA, common_keys[j])])
    \o Tuple([j \in DOMAIN common_keys |-> _xor_decrypt(BufHtmlXorFF, common_keys[j])])
    \o Tuple([j \in DOMAIN common_keys |-> _xor_decrypt(BufJson, common_keys[j])])
    \o << TextHtml \o <<62, 97, 98, 99, 0>>, TextHtml \o <<62, 97, 98, 99, 100, 0>>,
          TextXml \o <<32, 63, 62>>, TextHtml \o Fill(0, 5) >>

ScoreResults == Tuple([i \in DOMAIN ScoreInputs |-> _score_decryption_result(ScoreInputs[i])])

\* _score_decryption_result is called on buffer number i of ScoreInputs
Score(i) ==
  /\ unit' = [fn |-> "score", data |-> ScoreInputs[i], result |-> ScoreResults[i]]
  /\ UNCHANGED <<engineVars, profile, etype, etype2, strat, analysis, webVars>>

\* further calls of the branches: a JSON object encrypted with the key
\* b'\x05' and keys 0, 1, 2, ... tried; a ZIP signature before 200 distinct
\* bytes and all keys zero; the 16-byte blocks A A B, and A A; blocks of 4
\* bytes; a target file type that is not in the table
ExtraInputs ==
  << [file_content |-> _xor_decrypt(BufJson, <<5>>), strategy |-> StratXor, rng |-> <<0, 1>>],
     [file_content |-> SigZIP \o Ramp(0, 200), strategy |-> StratXor, rng |-> <<0, 0>>],
     [file_content |-> Ramp(0, 16) \o Ramp(0, 16) \o Ramp(16, 16),
      strategy |-> StratPattern(16), rng |-> <<0, 0>>],
     [file_content |-> Ramp(0, 16) \o Ramp(0, 16), strategy |-> StratPattern(16), rng |-> <<0, 0>>],
     [file_content |-> BufZipZeros, strategy |-> StratPattern(4), rng |-> <<0, 0>>],
     [file_content |-> BufWeakZip, strategy |-> StratHeader("unknown"), rng |-> <<0, 0>>],
     [file_content |-> <<1, 2, 1, 2, 1>>, strategy |-> StratPattern(2), rng |-> <<0, 0>>],
     [file_content |-> Reversed(_xor_decrypt(BufPdfXor01, <<1>>)), strategy |-> StratGeneric,
      rng |-> <<0, 0>>] >>

\* the calls the branches are given on their own
UnitInputs == RecoverInputs \o ExtraInputs

UnitResults ==
  Tuple([i \in DOMAIN UnitInputs |->
           IF i <= Len(RecoverInputs) THEN BranchResults[i]
           ELSE ApplyStrategy(UnitInputs[i].file_content, UnitInputs[i].strategy,
                              UnitInputs[i].rng)])

\* lines 379-390: the keys call number i of UnitInputs tries in the XOR
\* branch, each with its decryption and score, in the order tried (none if
\* the call is not one of that branch or has no key-size range)
TriedTable ==
  Tuple([i \in DOMAIN UnitInputs |->
           LET strategy == UnitInputs[i].strategy
               range == Get(strategy, "key_size_range", <<1, 4>>)
           IN  IF Get(strategy, "name", "unknown") # "xor_bruteforce" \/ range = None
                  \/ range[2] < range[1]
               THEN <<>>
               ELSE Candidates(UnitInputs[i].file_content,
                               Tuple([j \in 1..(10 * (range[2] - range[1] + 1)) |->
                                        TriedKey(UnitInputs[i].rng, range[1], j)]))])

\* the strategy names that have a branch of their own (lines 89-97)
OwnBranchNames ==
  {"xor_bruteforce", "known_header_analysis", "pattern_based_recovery", "partial_key_recovery"}

\* lines 555-577: the candidates call number i of UnitInputs scores in the
\* generic branch, the XOR-decryption under each dictionary key and then the
\* reversed buffer (none if the call goes to another branch)
GenericTable ==
  Tuple([i \in DOMAIN UnitInputs |->
           LET content == UnitInputs[i].file_content
               decrypted(k) == IF k <= Len(common_keys)
                               THEN _xor_decrypt(content, common_keys[k])
                               ELSE Reversed(content)
           IN  IF Get(UnitInputs[i].strategy, "name", "unknown") \in OwnBranchNames
               THEN <<>>
               ELSE Tuple([k \in 1..(Len(common_keys) + 1) |->
                             [decrypted |-> decrypted(k),
                              score |-> _score_decryption_result(decrypted(k))]])])

\* lines 87-100: the branch of call number i of UnitInputs runs and
\* returns r, or raises
Branch(i, r) ==
  /\ unit' = [fn |-> "branch", input |-> i, content |-> UnitInputs[i].file_content,
               strategy |-> UnitInputs[i].strategy, rng |-> UnitInputs[i].rng,
               result |-> r]
  /\ UNCHANGED <<engineVars, profile, etype, etype2, strat, analysis, webVars>>

NextUnits ==
  \/ \E i \in DOMAIN UnitInputs : \E r \in UnitResults[i] : Branch(i, r)
  \/ \E i \in DOMAIN Buffers : Profile(i)
  \/ \E i \in DOMAIN Buffers : Analyze(i)
  \/ \E i \in DOMAIN ScoreInputs : Score(i)

SpecUnits == Init /\ [][NextUnits]_vars

(***************************************************************************)
(* The web layer (src/routes.py): POST /decrypt and /download_decrypted     *)
(*                                                                         *)
(* attempts is the DecryptionAttempt table (the row with id n is           *)
(* attempts[n]); handler holds the locals and the response of the request  *)
(* handled last. Requests are handled one at a time, for one logged-in     *)
(* user, and the commits of the database session succeed.                  *)
(***************************************************************************)
\* the number of rows the table may hold
MaxAttempts == 2

\* 50 * 1024 * 1024
UploadLimit == 52428800

\* an unset (NULL) column of a row
Null == "NULL"

\* the files uploaded: two of entropy above 7.8 and skewed, and a weakly
\* encrypted ZIP
WebFiles ==
  <<BufStrongSkew, Ramp(0, 256) \o Fill(9, 12), BufWeakZip>>

\* request.files and what file.read() returns: no file part, an empty file
\* name, a file over the limit (only its length is kept), and the files of
\* WebFiles
Uploads ==
  {[has_file |-> FALSE, filename |-> "", file |-> 0, length |-> 0],
   [has_file |-> TRUE, filename |-> "", file |-> 1, length |-> 0],
   [has_file |-> TRUE, filename |-> "big.bin", file |-> 0, length |-> UploadLimit + 1]}
    \cup {[has_file |-> TRUE, filename |-> "a.bin", file |-> i, length |-> Len(WebFiles[i])] :
            i \in DOMAIN WebFiles}

\* request.form.get('processing_priority', 'balanced')
Priorities == {"balanced", "thorough", "fast"}

Fast ==
  [exhaustive_search |-> FALSE, deep_analysis |-> FALSE, timeout_multiplier |-> Rat(1, 2)]

\* lines 190-202
strategy_options(processing_priority) ==
  IF processing_priority = "thorough" THEN Thorough
  ELSE IF processing_priority = "fast" THEN Fast
  ELSE EmptyDict

\* lines 208-209: analysis_result['strategy'].update(strategy_options)
Overlay(strategy, options) == options @@ strategy

\* line 205 for each file of WebFiles
WebAnalysis == Tuple([i \in DOMAIN WebFiles |-> analyze_encryption(WebFiles[i])])

\* the random generator of the requests
WebRng == <<7, 13>>

\* lines 87-100 for each file of WebFiles and each priority: the possible
\* results of the branch attempt_decryption runs
WebBranchResults ==
  Tuple([i \in DOMAIN WebFiles |->
           [p \in Priorities |->
              IF WebAnalysis[i].exc # "" THEN {}
              ELSE ApplyStrategy(WebFiles[i],
                                 Overlay(WebAnalysis[i].val.strategy, strategy_options(p)),
                                 WebRng)]])

\* attempt_decryption as one call at clock t whose branch gives r: the dict
\* returned and the cache afterwards
attempt_decryption(cache, t, r) ==
  IF r.exc # "" THEN [result |-> ErrorOutcome(r.exc), cache |-> cache]
  ELSE LET success_level == SuccessLevel(r.val.decrypted_content, r.val.confidence)
           stored == ShouldCache(r.val.decrypted_content, success_level)
       IN  [result |->
              [success_level |-> success_level,
               decrypted_content |-> r.val.decrypted_content,
               confidence |-> r.val.confidence,
               key_found |-> r.val.key_found,
               message |-> LevelMessage(success_level),
               execution_time |-> "elapsed",
               details |-> IF stored
                           THEN [decryption_id |-> DecryptionId(t)] @@ r.val.details
                           ELSE r.val.details],
            cache |-> IF stored
                      THEN CachePut(cache, DecryptionId(t), r.val.decrypted_content)
                      ELSE cache]

\* lines 175-184: the row as first committed
NewAttempt(id, t, filename) ==
  [id |-> id,
   filename |-> <<"decryption_attempt_", t, "_", filename>>,
   original_filename |-> filename,
   status |-> "processing",
   decryption_strategy |-> Null,
   encryption_type_detected |-> Null,
   success_level |-> Null,
   confidence |-> Null,
   result_message |-> Null,
   error_details |-> Null,
   encryption_key_found |-> FALSE,
   decrypted_file_size |-> Null,
   analysis_details |-> Null]

\* (mutant) the except clause leaves the row as it is
FailedAttemptUntouched(row, e) == row

\* lines 247-249: the except clause marks the row
FailedAttempt(row, e) ==
  [row EXCEPT !.status = "failed", !.error_details = e]

\* lines 212-213 and 226-233: the row after both calls have returned
CompletedAttempt(row, analysis_result, decryption_result) ==
  [row EXCEPT !.decryption_strategy = analysis_result.strategy,
              !.encryption_type_detected = analysis_result.encryption_type,
              !.status = "completed",
              !.success_level = decryption_result.success_level,
              !.confidence = decryption_result.confidence,
              !.result_message = decryption_result.message,
              !.encryption_key_found = decryption_result.key_found,
              !.decrypted_file_size =
                 IF Truthy(decryption_result.decrypted_content)
                 THEN Len(decryption_result.decrypted_content) ELSE 0,
              !.analysis_details = decryption_result.details]

\* lines 156-169: the upload is turned away with status 400
Rejection(u) ==
  IF ~u.has_file THEN "No file provided"
  ELSE IF u.filename = "" THEN "No file selected"
  ELSE IF u.length > UploadLimit THEN "File too large. Maximum size is 50MB."
  ELSE ""

\* decrypt_file, POST: the whole handler. raises says that an exception is
\* raised inside analyze_encryption, which lines 59-61 of the engine re-raise
\* (the profiler itself raises none on a bytes buffer; this is a failure of
\* the runtime, such as MemoryError).
PostDecrypt(u, processing_priority, raises) ==
  /\ IF Rejection(u) # ""
     THEN /\ handler' = [route |-> "decrypt", upload |-> u, code |-> 400,
                         rows_before |-> Len(attempts),
                         response |-> [error |-> Rejection(u)]]
          /\ UNCHANGED <<attempts, decryption_cache>>
     ELSE /\ Len(attempts) < MaxAttempts
          /\ LET id == Len(attempts) + 1
                 row == NewAttempt(id, now, u.filename)
                 analysed == IF raises THEN Err("analysis") ELSE WebAnalysis[u.file]
             IN  IF analysed.exc # ""
                 THEN /\ attempts' = Append(attempts, FailedAttempt(row, analysed.exc))
                      /\ handler' = [route |-> "decrypt", upload |-> u, code |-> 200,
                                     rows_before |-> Len(attempts),
                                     raised |-> TRUE,
                                     cache_before |-> decryption_cache,
                                     response |-> [success |-> FALSE, error |-> analysed.exc,
                                                   decryption_id |-> id]]
                      /\ UNCHANGED decryption_cache
                 ELSE \E r \in WebBranchResults[u.file][processing_priority] :
                        LET analysis_result ==
                              [analysed.val EXCEPT !.strategy =
                                 Overlay(analysed.val.strategy,
                                         strategy_options(processing_priority))]
                            done == attempt_decryption(decryption_cache, now, r)
                        IN  /\ attempts' =
                                 Append(attempts,
                                        CompletedAttempt(row, analysis_result, done.result))
                            /\ decryption_cache' = done.cache
                            /\ handler' =
                                 [route |-> "decrypt", upload |-> u, code |-> 200,
                                  rows_before |-> Len(attempts),
                                  raised |-> FALSE,
                                  cache_before |-> decryption_cache,
                                  file_content |-> WebFiles[u.file],
                                  processing_priority |-> processing_priority,
                                  analysis_result |-> analysis_result,
                                  decryption_result |-> done.result,
                                  response |-> [success |-> TRUE, decryption_id |-> id,
                                                success_level |-> done.result.success_level]]
  /\ UNCHANGED <<now, ncalls, pc, args, locals, ret, fetched, pureVars>>

\* download_decrypted: the whole handler
Download(decryption_id) ==
  /\ handler' =
       [route |-> "download", decryption_id |-> decryption_id,
        response |->
          IF decryption_id \notin DOMAIN attempts THEN [kind |-> "not found"]
          ELSE LET decryption == attempts[decryption_id]
                   decrypted_content ==
                     get_decrypted_content(decryption_cache, IntId(decryption_id))
               IN  IF decryption.success_level \in {"full", "partial"}
                      /\ Truthy(decrypted_content)
                   THEN [kind |-> "file", content |-> decrypted_content]
                   ELSE [kind |-> "redirect",
                         flash |-> "No decrypted content available for download"]]
  /\ UNCHANGED <<attempts, engineVars, pureVars>>

NextWeb ==
  \/ \E u \in Uploads : \E p \in Priorities : \E raises \in BOOLEAN : PostDecrypt(u, p, raises)
  \/ \E id \in 1..(MaxAttempts + 1) : Download(id)
  \/ Tick

SpecWeb == Init /\ [][NextWeb]_vars

(***************************************************************************)
(* Properties of the helpers                                               *)
(***************************************************************************)
\* C11: on the empty buffer every step of the profiler completes without
\* an exception: entropy 0, no statistics, an unidentified header of
\* unknown type, no pattern flagged.
C11_EmptyBufferProfile ==
  (unit.fn = "profile" /\ Len(unit.data) = 0) =>
    /\ unit.entropy = 0
    /\ unit.byte_distribution.exc = ""
    /\ unit.header_analysis.identified = FALSE
    /\ unit.header_analysis.file_type = "unknown"
    /\ unit.pattern_analysis.exc = ""
    /\ \A k \in DOMAIN unit.pattern_analysis.val : unit.pattern_analysis.val[k] = FALSE

\* C11 witness: the profiler has run on the empty buffer
C11_Witness ==
  /\ unit.fn = "profile"
  /\ unit.data = <<>>
  /\ unit.byte_distribution = Ok(EmptyDict)
  /\ unit.header_analysis = [identified |-> FALSE, file_type |-> "unknown"]

\* the ZIP signature followed by zero bytes, at least one
ZipThenZeros(data) ==
  /\ Len(data) > 4
  /\ \A j \in 1..4 : data[j] = SigZIP[j]
  /\ \A j \in 5..Len(data) : data[j] = 0

\* C12 as stated: for the ZIP signature followed by zero bytes the result
\* of analyze_encryption reports file_type zip and identified true.
C12_AnalyzeReportsZip ==
  (analysis # EmptyDict /\ ZipThenZeros(analysis.file_content)) =>
    /\ "file_type" \in DOMAIN analysis.result.val
    /\ analysis.result.val.file_type = "zip"
    /\ "identified" \in DOMAIN analysis.result.val
    /\ analysis.result.val.identified = TRUE

\* C12 as amended: for the ZIP signature followed by zero bytes, 16 bytes or
\* more in all, the header analysis of the profiler reports file_type zip
\* and identified true (a shorter buffer is unidentified); the result of
\* analyze_encryption has the five fields of C7 and none of the two, and
\* its strategy names no file type.
C12_HeaderAnalysisReportsZip ==
  /\ (unit.fn = "profile" /\ ZipThenZeros(unit.data)) =>
       IF Len(unit.data) >= 16
       THEN unit.header_analysis.file_type = "zip" /\ unit.header_analysis.identified
       ELSE unit.header_analysis.file_type = "unknown" /\ ~unit.header_analysis.identified
  /\ (analysis # EmptyDict /\ ZipThenZeros(analysis.file_content)) =>
       /\ analysis.result.exc = ""
       /\ DOMAIN analysis.result.val = AnalysisFields
       /\ "file_type" \notin DOMAIN analysis.result.val.strategy

\* C12 witness: the header of the signature with 1000 zero bytes is
\* identified as zip, and the analysis of the same buffer is returned
C12_Witness ==
  /\ unit.fn = "profile"
  /\ unit.data = BufZip1000
  /\ unit.header_analysis.file_type = "zip"
  /\ unit.header_analysis.identified
  /\ analysis # EmptyDict
  /\ analysis.file_content = BufZip1000
  /\ analysis.result.val.encryption_type = LabelNone

\* C13: the score of every buffer is an integer from 0 to 100, and the
\* score of an absent or empty buffer is 0.
C13_ScoreRange ==
  unit.fn = "score" =>
    /\ unit.result \in 0..100
    /\ (unit.data = None \/ unit.data = <<>>) => unit.result = 0

\* C13 witness: a PDF text scores 50 + 40 + 20 and is capped at 100
C13_Witness ==
  /\ unit.fn = "score"
  /\ unit.data # None
  /\ SignatureScore(unit.data) + TextScore(unit.data) + EntropyScore(unit.data) > 100
  /\ unit.result = 100

\* C14: the confidence of every returned outcome is at least 0 and at
\* most 1.
C14_ConfidenceRange ==
  \A w \in Returned :
    /\ ret[w].confidence[2] > 0
    /\ 0 <= ret[w].confidence[1]
    /\ ret[w].confidence[1] <= ret[w].confidence[2]

\* C14 witness: a candidate of score 100 is returned with confidence 1
C14_Witness ==
  \E w \in Returned :
    /\ ret[w].confidence[1] = ret[w].confidence[2]
    /\ ret[w].details.score = 100
    /\ ret[w].success_level = "full"

\* the XOR branch has returned a result
XorReturned ==
  /\ unit.fn = "branch"
  /\ Get(unit.strategy, "name", "unknown") = "xor_bruteforce"
  /\ unit.result.exc = ""

\* candidate j has the highest score of tried, and is the first that has
FirstBest(tried, j) ==
  /\ \A i \in 1..Len(tried) : tried[i].score <= tried[j].score
  /\ \A i \in 1..(j - 1) : tried[i].score < tried[j].score

\* the result is candidate j of tried with confidence min(score / 100, 1)
ReturnsCandidate(res, tried, j) ==
  /\ res.decrypted_content = tried[j].decrypted
  /\ res.details.key_hex = tried[j].key
  /\ 100 * res.confidence[1] = Min(tried[j].score, 100) * res.confidence[2]

\* C15 as stated: the XOR branch returns the decryption under the first
\* best-scoring tried key, with confidence min(best_score / 100, 1).
C15_KeepsBestCandidate ==
  (XorReturned /\ Len(TriedTable[unit.input]) > 0) =>
    \E j \in DOMAIN TriedTable[unit.input] :
      /\ FirstBest(TriedTable[unit.input], j)
      /\ ReturnsCandidate(unit.result.val, TriedTable[unit.input], j)

\* C15 as amended: so it does when the best score is 40 or more; when it
\* is less, or no key was tried, the branch returns the simulated
\* placeholder with confidence 0.75 and key_found true.
C15_KeepsBestOrSimulates ==
  XorReturned =>
    LET tried == TriedTable[unit.input]
        res == unit.result.val
    IN  IF \E j \in DOMAIN tried : tried[j].score >= 40
        THEN \E j \in DOMAIN tried : FirstBest(tried, j) /\ ReturnsCandidate(res, tried, j)
        ELSE /\ res.decrypted_content \in _create_simulated_decryption(unit.content, FALSE)
             /\ 100 * res.confidence[1] = 75 * res.confidence[2]
             /\ res.key_found = TRUE
             /\ "note" \in DOMAIN res.details

\* C15 witness: the best of the tried keys is not the first one tried
C15_Witness ==
  /\ XorReturned
  /\ \E j \in DOMAIN TriedTable[unit.input] :
       /\ j > 1
       /\ TriedTable[unit.input][1].score < TriedTable[unit.input][j].score
       /\ FirstBest(TriedTable[unit.input], j)
       /\ ReturnsCandidate(unit.result.val, TriedTable[unit.input], j)

\* the XOR branch or the pattern branch has returned a result
XorOrPatternReturned ==
  /\ unit.fn = "branch"
  /\ Get(unit.strategy, "name", "unknown") \in {"xor_bruteforce", "pattern_based_recovery"}
  /\ unit.result.exc = ""

\* C16: in every result of the XOR branch and of the pattern branch,
\* key_found is true iff the confidence returned is greater than 1/2.
C16_KeyFoundIffAboveHalf ==
  XorOrPatternReturned =>
    (unit.result.val.key_found <=>
       2 * unit.result.val.confidence[1] > unit.result.val.confidence[2])

\* C16 witness: the pattern branch returns confidence exactly 1/2 (one of
\* three blocks repeats) and key_found false
C16_Witness ==
  /\ XorOrPatternReturned
  /\ unit.strategy.name = "pattern_based_recovery"
  /\ unit.result.val.details.total_blocks = 3
  /\ 2 * unit.result.val.confidence[1] = unit.result.val.confidence[2]
  /\ unit.result.val.key_found = FALSE

\* the known-header branch has returned a result
HeaderReturned ==
  /\ unit.fn = "branch"
  /\ Get(unit.strategy, "name", "unknown") = "known_header_analysis"
  /\ unit.result.exc = ""

\* the target file type of the call
TargetType == Get(unit.strategy, "file_type", "unknown")

\* lines 446-449 written out byte by byte: byte i of the buffer XORed with
\* the key byte that turns the encrypted header into the expected one
HeaderDecrypted(content, expected_header) ==
  LET n == Len(expected_header)
      k(i) == ((i - 1) % n) + 1
  IN  Tuple([i \in 1..Len(content) |->
               Xor(content[i], Xor(content[k(i)], expected_header[k(i)]))])

\* the result is the simulated one of lines 463-470 with this key_found
HeaderPlaceholder(res, content, key_found) ==
  /\ res.decrypted_content \in _create_simulated_decryption(content, TRUE)
  /\ RatEQ(res.confidence, 6, 10)
  /\ res.key_found = key_found
  /\ "note" \in DOMAIN res.details

\* the result is the really decrypted buffer with confidence 0.8 and key found
HeaderAccepted(res, content, expected_header) ==
  /\ res.decrypted_content = HeaderDecrypted(content, expected_header)
  /\ StartsWith(res.decrypted_content, expected_header)
  /\ RatEQ(res.confidence, 8, 10)
  /\ res.key_found = TRUE

\* C17 as stated: the really decrypted buffer with confidence 0.8 and
\* key_found true only when its header matches the signature of the target
\* type; in every other case (unknown type, buffer shorter than the
\* signature) the placeholder with confidence 0.6 and key_found false.
C17_PlaceholderWithoutKey ==
  HeaderReturned =>
    LET res == unit.result.val
        long == /\ TargetType \in DOMAIN known_headers
                /\ Len(unit.content) >= Len(known_headers[TargetType])
    IN  IF long /\ StartsWith(HeaderDecrypted(unit.content, known_headers[TargetType]),
                              known_headers[TargetType])
        THEN HeaderAccepted(res, unit.content, known_headers[TargetType])
        ELSE HeaderPlaceholder(res, unit.content, FALSE)

\* C17 (amended): for a target type of the table and a buffer at least as long
\* as its signature the branch returns the really XOR-decrypted buffer, whose
\* header matches the signature, with confidence 0.8 and key_found true; for
\* a target type of the table and a shorter buffer it returns no bytes,
\* confidence 0.0, key_found false and the error "Content too short"; for any
\* other target type it returns the placeholder with confidence 0.6 and
\* key_found true.
C17_HeaderBranchCases ==
  HeaderReturned =>
    LET res == unit.result.val
    IN  IF TargetType \notin DOMAIN known_headers
        THEN HeaderPlaceholder(res, unit.content, TRUE)
        ELSE IF Len(unit.content) < Len(known_headers[TargetType])
        THEN /\ res.decrypted_content = None
             /\ RatEQ(res.confidence, 0, 1)
             /\ res.key_found = FALSE
             /\ res.details = [error |-> "Content too short"]
        ELSE HeaderAccepted(res, unit.content, known_headers[TargetType])

\* C17 witness: the branch has returned for a two-byte buffer and target type
\* zip, whose signature has four bytes
C17_Witness ==
  /\ HeaderReturned
  /\ TargetType = "zip"
  /\ Len(unit.content) = 2
  /\ unit.result.val.decrypted_content = None

\* C17 witness: an unknown target type gets the placeholder
C17_WitnessUnknown ==
  /\ HeaderReturned
  /\ TargetType = "unknown"
  /\ unit.result.val.key_found = TRUE
  /\ RatEQ(unit.result.val.confidence, 6, 10)

\* C17 witness: a text buffer that does not start with the signature is
\* decrypted with the derived key
C17_WitnessAccepted ==
  /\ HeaderReturned
  /\ TargetType = "text"
  /\ ~StartsWith(unit.content, known_headers["text"])
  /\ RatEQ(unit.result.val.confidence, 8, 10)

\* the pattern branch has returned a result for a positive block size
PatternReturned ==
  /\ unit.fn = "branch"
  /\ Get(unit.strategy, "name", "unknown") = "pattern_based_recovery"
  /\ Get(unit.strategy, "block_size", 16) > 0
  /\ unit.result.exc = ""

\* the number of blocks of size bs a buffer of n bytes is cut into
TotalBlocks(n, bs) == (n + bs - 1) \div bs

\* the number of distinct block values of the partition that occur more
\* than once
RepeatingBlockCount(content, bs) ==
  LET block(k) == Slice(content, (k - 1) * bs, k * bs)
      N == TotalBlocks(Len(content), bs)
  IN  Cardinality({block(k) : k \in {k \in 1..N : \E j \in 1..N : j # k /\ block(j) = block(k)}})

\* C18: the pattern branch's confidence is 0.4 + (repeating_block_count /
\* total_blocks) * 0.3, with total_blocks the number of blocks of the
\* partition and repeating_block_count the number of distinct block values
\* occurring more than once; for an empty buffer it is 0.4.
C18_PatternConfidence ==
  PatternReturned =>
    LET bs == Get(unit.strategy, "block_size", 16)
        t == TotalBlocks(Len(unit.content), bs)
        r == RepeatingBlockCount(unit.content, bs)
        c == unit.result.val.confidence
    IN  /\ unit.result.val.details.total_blocks = t
        /\ unit.result.val.details.repeating_blocks_count = r
        /\ IF t = 0 THEN RatEQ(c, 4, 10)
           ELSE c[1] * (10 * t) = (4 * t + 3 * r) * c[2]

\* C18 witness: the branch has returned for a buffer of several blocks that
\* all hold one value (one repeating value, confidence below 0.7)
C18_Witness ==
  /\ PatternReturned
  /\ unit.result.val.details.total_blocks > 2
  /\ unit.result.val.details.repeating_blocks_count = 1
  /\ RatLT(unit.result.val.confidence, 7, 10)

\* C18 witness: the branch has returned for a buffer whose last block is
\* short (blocks 1 2, 1 2 and 1: confidence exactly 0.5)
C18_WitnessShortBlock ==
  /\ PatternReturned
  /\ Len(unit.content) % unit.strategy.block_size # 0
  /\ unit.result.val.details.repeating_blocks_count = 1
  /\ RatEQ(unit.result.val.confidence, 5, 10)

\* C18 witness: the branch has returned for the empty buffer
C18_WitnessEmpty ==
  /\ PatternReturned
  /\ unit.content = <<>>
  /\ RatEQ(unit.result.val.confidence, 4, 10)

\* a branch has returned a buffer made by _create_simulated_decryption
\* (lines 412, 463, 496, 535, 591)
Fabricated ==
  /\ unit.fn = "branch"
  /\ unit.result.exc = ""
  /\ LET name == Get(unit.strategy, "name", "unknown")
         res == unit.result.val
     IN  \/ name = "pattern_based_recovery"
         \/ name = "known_header_analysis" /\ RatEQ(res.confidence, 6, 10)
         \/ name = "partial_key_recovery" /\ RatEQ(res.confidence, 5, 10)
         \/ name = "xor_bruteforce" /\ "note" \in DOMAIN res.details
         \/ /\ name \notin {"pattern_based_recovery", "known_header_analysis",
                            "partial_key_recovery", "xor_bruteforce"}
            /\ res.details.note = "Simulated partial recovery for demonstration purposes"

\* C19: every placeholder buffer a recovery branch fabricates has exactly the
\* length of the input buffer, whatever the random per-chunk choices.
C19_PlaceholderLength ==
  Fabricated => Len(unit.result.val.decrypted_content) = Len(unit.content)

\* the partial placeholder of a buffer of at least 8 bytes whose first chunk
\* was chosen as "decrypted" is one byte longer than the buffer
C19_OneByteLonger ==
  /\ Fabricated
  /\ Len(unit.content) >= 8
  /\ StartsWith(unit.result.val.decrypted_content, TextDECRYPTED)
  /\ Len(unit.result.val.decrypted_content) = Len(unit.content) + 1

\* the returned calls that ran the partial-key branch
PartialKeyReturned ==
  {w \in Returned : Get(args[w].strategy, "name", "unknown") = "partial_key_recovery"}

\* the buffer's entropy is above 7.5
VeryHighEntropy(content) == EntropyGT(_calculate_entropy(content), 75, 10)

\* a failure with confidence 0.3, no bytes, key_found false and no cache entry
PartialKeyFailure(w) ==
  /\ ret[w].success_level = "failed"
  /\ RatEQ(ret[w].confidence, 3, 10)
  /\ ret[w].decrypted_content = None
  /\ ret[w].key_found = FALSE
  /\ "decryption_id" \notin DOMAIN ret[w].details
  /\ decryption_cache = args[w].cache_at_call

\* a partial success with confidence 0.5 and a placeholder buffer
PartialKeySuccess(w) ==
  /\ ret[w].success_level = "partial"
  /\ RatEQ(ret[w].confidence, 5, 10)
  /\ ret[w].decrypted_content \in _create_simulated_decryption(args[w].file_content, TRUE)

\* C20 as stated: entropy > 7.5 gives a failure with confidence 0.3, no
\* bytes, key_found false and no cache entry; every buffer with entropy
\* <= 7.5 gives a partial success with confidence 0.5 and a placeholder.
C20_PartialKeyOutcome ==
  \A w \in PartialKeyReturned :
    IF VeryHighEntropy(args[w].file_content)
    THEN PartialKeyFailure(w)
    ELSE PartialKeySuccess(w)

\* C20 (amended): entropy > 7.5 gives a failure with confidence 0.3, no
\* bytes, key_found false and no cache entry; every non-empty buffer with
\* entropy <= 7.5 gives a partial success with confidence 0.5 and a
\* placeholder; the empty buffer gives a failed outcome with confidence 0.5,
\* key_found true, an empty buffer and no cache entry.
C20_PartialKeyOutcomeNonEmpty ==
  \A w \in PartialKeyReturned :
    IF VeryHighEntropy(args[w].file_content)
    THEN PartialKeyFailure(w)
    ELSE IF Len(args[w].file_content) > 0
    THEN PartialKeySuccess(w)
    ELSE /\ ret[w].success_level = "failed"
         /\ RatEQ(ret[w].confidence, 5, 10)
         /\ ret[w].key_found = TRUE
         /\ ret[w].decrypted_content = <<>>
         /\ "decryption_id" \notin DOMAIN ret[w].details
         /\ decryption_cache = args[w].cache_at_call

\* C20 witness: a call on a buffer with 7.0 < entropy <= 7.5 has returned a
\* partial success
C20_Witness ==
  \E w \in PartialKeyReturned :
    /\ EntropyGT(_calculate_entropy(args[w].file_content), 70, 10)
    /\ ~VeryHighEntropy(args[w].file_content)
    /\ ret[w].success_level = "partial"

\* C20 witness: a call on a buffer with entropy above 7.5 has returned over a
\* cache that holds an entry of an earlier call
C20_WitnessHighEntropy ==
  \E w \in PartialKeyReturned :
    /\ VeryHighEntropy(args[w].file_content)
    /\ ret[w].success_level = "failed"
    /\ DOMAIN decryption_cache # {}

\* C20 witness: a call on the empty buffer has returned
C20_WitnessEmpty ==
  \E w \in PartialKeyReturned :
    /\ args[w].file_content = <<>>
    /\ ret[w].success_level = "failed"

\* a call whose strategy name is none of the four other names has returned
GenericReturned ==
  /\ unit.fn = "branch"
  /\ Get(unit.strategy, "name", "unknown") \notin OwnBranchNames
  /\ unit.result.exc = ""

\* C21: a strategy name outside the four other names runs the generic
\* branch, which scores the XOR-decryption under each dictionary key and the
\* reversed buffer and returns the (first) best-scoring candidate with
\* confidence min(best_score / 100, 1); exactly when that confidence is
\* below 0.3 it returns a partial-mode placeholder with confidence 0.4.
C21_GenericKeepsBestOrPlaceholder ==
  GenericReturned =>
    LET tried == GenericTable[unit.input]
        res == unit.result.val
    IN  /\ Len(tried) = 8
        /\ \E j \in DOMAIN tried :
             /\ FirstBest(tried, j)
             /\ res.details.score = tried[j].score
             /\ IF 10 * Min(tried[j].score, 100) < 3 * 100
                THEN /\ res.decrypted_content \in _create_simulated_decryption(unit.content, TRUE)
                     /\ RatEQ(res.confidence, 4, 10)
                ELSE /\ res.decrypted_content = tried[j].decrypted
                     /\ 100 * res.confidence[1] = Min(tried[j].score, 100) * res.confidence[2]

\* C21 witness: the reversed buffer is the only best candidate and is what
\* the branch returns
C21_Witness ==
  /\ GenericReturned
  /\ FirstBest(GenericTable[unit.input], 8)
  /\ GenericTable[unit.input][8].score >= 30
  /\ unit.result.val.decrypted_content = Reversed(unit.content)

\* C21 witness: no candidate of a non-empty buffer scores 30 and the
\* placeholder is returned
C21_WitnessPlaceholder ==
  /\ GenericReturned
  /\ Len(unit.content) > 0
  /\ \A j \in DOMAIN GenericTable[unit.input] : GenericTable[unit.input][j].score < 30
  /\ RatEQ(unit.result.val.confidence, 4, 10)

\* C21 witness: a strategy that has no name has run the generic branch
C21_WitnessNoName ==
  /\ GenericReturned
  /\ "name" \notin DOMAIN unit.strategy
  /\ unit.result.val.details.decryption_method = "Generic recovery techniques"

\* C21 witness: a dictionary key gives the best candidate, capped at
\* confidence 1
C21_WitnessKey ==
  /\ GenericReturned
  /\ Get(unit.strategy, "name", "") = "unknown"
  /\ \E j \in 1..7 : FirstBest(GenericTable[unit.input], j)
  /\ RatEQ(unit.result.val.confidence, 1, 1)

\* the profiler has run on a buffer and its pattern detection has returned
PatternsDetected ==
  /\ unit.fn = "profile"
  /\ unit.pattern_analysis.exc = ""

\* some value occurs more than 3 times among all the full 16-byte blocks of
\* the buffer
FullBlockRepeats(data) ==
  LET N == Len(data) \div 16
      block(k) == Slice(data, 16 * (k - 1), 16 * k)
  IN  \E k \in 1..N : Cardinality({j \in 1..N : block(j) = block(k)}) > 3

\* C22: has_repeating_blocks is flagged iff some block value occurs more than
\* 3 times among all the full consecutive 16-byte blocks of the buffer, the
\* last one included.
C22_CountsEveryFullBlock ==
  PatternsDetected =>
    (unit.pattern_analysis.val.has_repeating_blocks <=> FullBlockRepeats(unit.data))

\* four equal 16-byte blocks and nothing else: the flag is not set
C22_LastBlockSkipped ==
  /\ PatternsDetected
  /\ Len(unit.data) = 64
  /\ FullBlockRepeats(unit.data)
  /\ unit.pattern_analysis.val.has_repeating_blocks = FALSE

\* the number of comparisons the XOR-pattern test makes on a buffer of n
\* bytes: one less than the number of sampled bytes
Comparisons(n) == ((Min(1000, n) + 9) \div 10) - 1

\* the distinct values of sample j XOR sample j + 1, the samples being the
\* bytes at offsets 0, 10, 20, ... below min(1000, len)
DistinctXors(data) ==
  {Xor(data[10 * (j - 1) + 1], data[10 * j + 1]) : j \in 1..Comparisons(Len(data))}

\* C23 as stated: for every buffer length possible_xor is flagged iff the
\* distinct XOR outputs of adjacent samples are fewer than half the
\* comparisons.
C23_XorFlagIffLowRatio ==
  PatternsDetected =>
    (unit.pattern_analysis.val.possible_xor <=>
       (/\ Comparisons(Len(unit.data)) > 0
        /\ 2 * Cardinality(DistinctXors(unit.data)) < Comparisons(Len(unit.data))))

\* C23 (amended): for a buffer of at least 100 bytes possible_xor is flagged
\* iff the distinct XOR outputs of adjacent samples (every tenth byte of the
\* first 1000) are fewer than half the comparisons, of which there are at
\* least 9 and at most 99; a buffer shorter than 100 bytes is never flagged
\* and no ratio is computed.
C23_XorFlagFrom100Bytes ==
  unit.fn = "profile" =>
    /\ unit.pattern_analysis.exc = ""
    /\ IF Len(unit.data) < 100
       THEN unit.pattern_analysis.val.possible_xor = FALSE
       ELSE /\ Comparisons(Len(unit.data)) \in 9..99
            /\ unit.pattern_analysis.val.possible_xor <=>
                 2 * Cardinality(DistinctXors(unit.data)) < Comparisons(Len(unit.data))

\* C23 witness: a buffer of 100 bytes or more is flagged
C23_Witness ==
  /\ PatternsDetected
  /\ Len(unit.data) >= 100
  /\ unit.pattern_analysis.val.possible_xor = TRUE

\* C23 witness: a buffer of 100 bytes or more is not flagged
C23_WitnessNotFlagged ==
  /\ PatternsDetected
  /\ Len(unit.data) >= 100
  /\ unit.pattern_analysis.val.possible_xor = FALSE

\* C23 witness: a buffer shorter than 100 bytes whose samples all agree is
\* not flagged
C23_WitnessShort ==
  /\ PatternsDetected
  /\ Len(unit.data) < 100
  /\ Comparisons(Len(unit.data)) > 0
  /\ Cardinality(DistinctXors(unit.data)) = 1
  /\ unit.pattern_analysis.val.possible_xor = FALSE

\* the scorer has returned for a non-empty buffer
Scored ==
  /\ unit.fn = "score"
  /\ unit.data # None
  /\ Len(unit.data) > 0

\* the printable ASCII, tab, LF and CR bytes among the first min(1000, len)
PrintableCount(data) ==
  Cardinality({i \in 1..Min(1000, Len(data)) :
                 (32 <= data[i] /\ data[i] <= 126) \/ data[i] \in {9, 10, 13}})

\* the HTML/XML (+20) or JSON (+15) bonus of the text sample
MarkupBonus(data) ==
  LET text == Utf8DecodeIgnore(Slice(data, 0, Min(1000, Len(data))))
  IN  IF StartsWith(text, TextDOCTYPE) \/ StartsWith(text, TextHtml) \/ StartsWith(text, TextXml)
      THEN 20
      ELSE IF StartsWith(text, TextBrace) /\ StripEndsWithBrace(text) THEN 15
      ELSE 0

\* the score is the capped sum of the signature bonus, textBonus and the
\* entropy bonus
ScoreWithTextBonus(textBonus) ==
  unit.result = Min(SignatureScore(unit.data) + textBonus + EntropyScore(unit.data), 100)

\* C24 as stated: the +40 printable bonus is added whenever at least 90% (>=)
\* of the first min(1000, length) bytes are printable, and only then the
\* HTML/XML or JSON bonus is considered.
C24_PrintableAtLeast90 ==
  Scored =>
    ScoreWithTextBonus(IF 10 * PrintableCount(unit.data) >= 9 * Min(1000, Len(unit.data))
                       THEN 40 + MarkupBonus(unit.data) ELSE 0)

\* C24 (amended): the +40 printable bonus is added whenever more than 90% (>,
\* boundary excluded) of the first min(1000, length) bytes are printable, and
\* only then the HTML/XML or JSON bonus is considered.
C24_PrintableAbove90 ==
  Scored =>
    ScoreWithTextBonus(IF 10 * PrintableCount(unit.data) > 9 * Min(1000, Len(unit.data))
                       THEN 40 + MarkupBonus(unit.data) ELSE 0)

\* C24 witness: a buffer that starts with <html and is printable to exactly
\* 90% has been scored, without either text bonus
C24_Witness ==
  /\ Scored
  /\ 10 * PrintableCount(unit.data) = 9 * Min(1000, Len(unit.data))
  /\ MarkupBonus(unit.data) = 20
  /\ unit.result = EntropyScore(unit.data)

\* C24 witness: a buffer printable above 90%, not wholly, gets both bonuses
C24_WitnessAbove ==
  /\ Scored
  /\ PrintableCount(unit.data) < Len(unit.data)
  /\ unit.result = 60 + EntropyScore(unit.data)

\* C24 witness: a buffer that starts with <html and is printable to 50% gets
\* no markup bonus
C24_WitnessMarkupOnlyThen ==
  /\ Scored
  /\ 2 * PrintableCount(unit.data) = Len(unit.data)
  /\ MarkupBonus(unit.data) = 20
  /\ unit.result = EntropyScore(unit.data)

\* the returned calls that ran the known-header branch for a target type
\* of the table on a buffer at least as long as that type's signature
HeaderCallsInTable ==
  {w \in Returned :
     /\ Get(args[w].strategy, "name", "unknown") = "known_header_analysis"
     /\ Get(args[w].strategy, "file_type", "unknown") \in DOMAIN known_headers
     /\ Len(args[w].file_content) >=
          Len(known_headers[Get(args[w].strategy, "file_type", "unknown")])}

\* the returned calls that ran the known-header branch
HeaderCalls ==
  {w \in Returned : Get(args[w].strategy, "name", "unknown") = "known_header_analysis"}

\* C26: for a target type of the table and a buffer at least as long as its
\* signature the known-header branch always verifies: confidence 0.8,
\* key_found true, the decrypted buffer starting with the signature, and a
\* success level of partial, never full; the confidence-0.6 placeholder is
\* returned only for a target type outside the table.
C26_HeaderAlwaysVerifies ==
  /\ \A w \in HeaderCallsInTable :
       /\ RatEQ(ret[w].confidence, 8, 10)
       /\ ret[w].key_found = TRUE
       /\ StartsWith(ret[w].decrypted_content,
                     known_headers[Get(args[w].strategy, "file_type", "unknown")])
       /\ ret[w].success_level = "partial"
  /\ \A w \in HeaderCalls :
       RatEQ(ret[w].confidence, 6, 10) =>
         Get(args[w].strategy, "file_type", "unknown") \notin DOMAIN known_headers

\* C26 witness: a call for target type text on a buffer that does not start
\* with the signature has returned partial with confidence 0.8
C26_Witness ==
  \E w \in HeaderCallsInTable :
    /\ args[w].strategy.file_type = "text"
    /\ ~StartsWith(args[w].file_content, known_headers["text"])
    /\ ret[w].success_level = "partial"
    /\ RatEQ(ret[w].confidence, 8, 10)

\* C26 witness: a call without a target type has returned the placeholder
C26_WitnessPlaceholder ==
  \E w \in HeaderCalls :
    /\ "file_type" \notin DOMAIN args[w].strategy
    /\ RatEQ(ret[w].confidence, 6, 10)

\* C29: header analysis sets neither possible_encryption nor header_entropy
\* for any buffer: the entropy of the 16 header bytes is at most 4, below
\* the 7.0 it is tested against.
C29_HeaderNeverFlagsEncryption ==
  unit.fn = "profile" =>
    /\ "possible_encryption" \notin DOMAIN unit.header_analysis
    /\ "header_entropy" \notin DOMAIN unit.header_analysis
    /\ Len(unit.data) >= 16 =>
         ~EntropyGT(_calculate_entropy(Slice(unit.data, 0, 16)), 4, 1)

\* C29 witness: the profiler has run on a buffer whose 16 header bytes are
\* all distinct (entropy exactly 4) and match no signature
C29_Witness ==
  /\ unit.fn = "profile"
  /\ Len(unit.data) >= 16
  /\ Cardinality({unit.data[i] : i \in 1..16}) = 16
  /\ unit.header_analysis.identified = FALSE
  /\ "header_hex" \in DOMAIN unit.header_analysis
  /\ ~EntropyLT(_calculate_entropy(Slice(unit.data, 0, 16)), 4, 1)

(***************************************************************************)
(* Properties of the web layer                                             *)
(***************************************************************************)
\* the last request was a download of a row whose success level is full or
\* partial
DownloadOfRecovered ==
  /\ handler.route = "download"
  /\ handler.decryption_id \in DOMAIN attempts
  /\ attempts[handler.decryption_id].success_level \in {"full", "partial"}

\* C25: a download of an attempt recorded as full or partial gets the
\* recovered bytes: the identifier the route passes to get_decrypted_content
\* is the one under which attempt_decryption stored them.
C25_DownloadRetrievesBytes ==
  DownloadOfRecovered =>
    /\ Str(IntId(handler.decryption_id)) =
         attempts[handler.decryption_id].analysis_details.decryption_id
    /\ handler.response.kind = "file"

\* the download of an attempt recorded as partial, whose bytes are in the
\* cache, is answered with the redirect
C25_DownloadFindsNothing ==
  /\ DownloadOfRecovered
  /\ attempts[handler.decryption_id].analysis_details.decryption_id \in DOMAIN decryption_cache
  /\ handler.response.kind = "redirect"

\* the last request was a POST /decrypt in which both engine calls returned
\* and the analysis classified the file as strong-unknown
StrongUnknownDecrypted ==
  /\ handler.route = "decrypt"
  /\ handler.code = 200
  /\ ~handler.raised
  /\ handler.analysis_result.encryption_type = LabelStrongUnknown

\* C27: a buffer classified strong-unknown (entropy > 7.8, no repeating
\* blocks, distribution not uniform) is given partial_key_recovery, and the
\* recovery with that strategy, overlaid or not, returns failed with
\* confidence 0.3, no bytes and no cache entry.
C27_StrongUnknownAlwaysFails ==
  StrongUnknownDecrypted =>
    LET res == handler.decryption_result
        row == attempts[handler.rows_before + 1]
    IN  /\ EntropyGT(_calculate_entropy(handler.file_content), 78, 10)
        /\ handler.analysis_result.strategy.name = "partial_key_recovery"
        /\ res.success_level = "failed"
        /\ RatEQ(res.confidence, 3, 10)
        /\ res.decrypted_content = None
        /\ "decryption_id" \notin DOMAIN res.details
        /\ decryption_cache = handler.cache_before
        /\ row.success_level = "failed"
        /\ row.decrypted_file_size = 0

\* C27 witness: a strong-unknown file was posted with priority thorough over
\* a cache that holds an entry
C27_Witness ==
  /\ StrongUnknownDecrypted
  /\ handler.processing_priority = "thorough"
  /\ "exhaustive_search" \in DOMAIN handler.analysis_result.strategy
  /\ DOMAIN decryption_cache # {}
  /\ handler.decryption_result.success_level = "failed"

\* C27 witness: without the overlay
C27_WitnessBalanced ==
  /\ StrongUnknownDecrypted
  /\ handler.processing_priority = "balanced"
  /\ handler.decryption_result.success_level = "failed"

\* C28: no row is left with status processing when its request has
\* returned; the row of a request is completed iff analyze_encryption and
\* attempt_decryption both returned and failed iff an exception escaped; a
\* rejected upload creates no row.
C28_AttemptLeavesProcessing ==
  /\ \A id \in DOMAIN attempts : attempts[id].status \in {"completed", "failed"}
  /\ handler.route = "decrypt" =>
       /\ handler.code = 400 <=> Rejection(handler.upload) # ""
       /\ handler.code = 400 => Len(attempts) = handler.rows_before
       /\ handler.code = 200 =>
            /\ Len(attempts) = handler.rows_before + 1
            /\ attempts[Len(attempts)].status = "completed" <=> ~handler.raised
            /\ attempts[Len(attempts)].status = "failed" <=> handler.raised
            /\ ~handler.raised =>
                 attempts[Len(attempts)].success_level = handler.decryption_result.success_level

\* C28 witness: a request in which the exception escaped has returned
C28_Witness ==
  /\ handler.route = "decrypt"
  /\ handler.code = 200
  /\ handler.raised
  /\ attempts[Len(attempts)].status = "failed"
  /\ attempts[Len(attempts)].error_details # Null

\* C28 witness: a row is completed with an outcome of success level failed
C28_WitnessCompletedFailed ==
  /\ handler.route = "decrypt"
  /\ handler.code = 200
  /\ ~handler.raised
  /\ attempts[Len(attempts)].status = "completed"
  /\ attempts[Len(attempts)].success_level = "failed"

\* C28 witness: an upload over the limit is rejected after a row was created
\* by an earlier request
C28_WitnessRejected ==
  /\ handler.route = "decrypt"
  /\ handler.code = 400
  /\ handler.upload.length > UploadLimit
  /\ Len(attempts) = 1

====
